---------------------------- MODULE Spec2Model ----------------------------
(***************************************************************************)
(* GCC (lasagna-compressor): the Huffman engine of gcc_huffman.py and the  *)
(* four container formats built on it (v1 raw bytes, v2 mask/vowels/cons,  *)
(* v3 pseudo-syllable tokens, v4 whole-word tokens), with the bit packer   *)
(* and the decoding loop of the standalone gcc_huffman_step1.py.           *)
(*                                                                         *)
(* Bytes are integers 0..255, byte strings are sequences of them.  Python  *)
(* indices are 0-based; TLA+ sequences are 1-based, so data[i] of the      *)
(* source is data[i + 1] here.  A Python loop that may run for hundreds of *)
(* iterations is written as its loop body (a ...Step operator) and a      *)
(* ...Run operator that applies the body to an index range lo..hi-1 in     *)
(* order, splitting the range in halves so that evaluation stays shallow.  *)
(***************************************************************************)
EXTENDS Integers, Sequences, FiniteSets, TLC

VARIABLES
    version,    \* which format's compress/decompress pair the call uses (1..4)
    data,       \* the input byte sequence handed to compress_bytes_vK
    pc,         \* "start" | "compressed" | "failed" | "done"
    comp,       \* the container returned by compress_bytes_vK (possibly cut)
    cerr,       \* the exception compress_bytes_vK raised, or "none"
    cut,        \* how many trailing bytes of the container were lost in transit
    result,     \* what decompress_bytes_vK returned or raised
    decoder,    \* the K of the decompress_bytes_vK that was called (0: none yet)
    codec,      \* SpecCodec: encode_data's result for data, then decode's result;
                \* SpecStep1: which program wrote (enc) and read (dec) the container
    freq0,      \* SpecBuild: the frequency table both builds start from
    bfreq,      \* the frequency table each build was called with
    bpc,        \* SpecBuild: each build's position in build_huffman_tree
    bheap,      \* SpecBuild: each build's heap (a set of (f, counter, node))
    bcounter,   \* SpecBuild: each build's itertools.count() position
    broot       \* SpecBuild: each build's returned root (NoTree for None)

vars == <<version, data, pc, comp, cerr, cut, result, decoder, codec,
          freq0, bfreq, bpc, bheap, bcounter, broot>>

pvars == <<version, data, pc, comp, cerr, cut, result, decoder, codec>>
bvars == <<freq0, bfreq, bpc, bheap, bcounter, broot>>

-----------------------------------------------------------------------------
(* Bounds of the model *)

\* longest enumerated input (every byte string over Alphabet up to this length)
MaxLen == 3
\* largest entry of an enumerated frequency table (SpecBuild)
MaxFreq == 2
\* most trailing bytes the Truncate step removes from a container
MaxCut == 2

\* ' ', 'E', 'a', 'b', 0xFF: a non-letter, two vowels, a consonant, and a byte
\* that str.isalpha accepts but that is no ASCII letter (and whose successor
\* modulo 256 wraps to 0)
Alphabet == {32, 69, 97, 98, 255}

Byte == 0..255

-----------------------------------------------------------------------------
(* Python helpers *)

Min2(a, b) == IF a < b THEN a ELSE b

\* s[a:b] for 0 <= a, b: the slice is clipped to the sequence, never an error
Slice(s, a, b) ==
    LET hi == Min2(b, Len(s))
    IN  IF a >= hi THEN <<>> ELSE [i \in 1..(hi - a) |-> s[a + i]]

\* n >> (8 * k)
RECURSIVE ShiftRightBytes(_, _)
ShiftRightBytes(n, k) == IF k = 0 THEN n ELSE ShiftRightBytes(n \div 256, k - 1)

\* n.to_bytes(w, "big") for 0 <= n < 256^w
ToBytes(n, w) == [i \in 1..w |-> ShiftRightBytes(n, w - i) % 256]

\* int.from_bytes(s, "big"); the empty string gives 0
RECURSIVE FromBytes(_)
FromBytes(s) ==
    IF Len(s) = 0 THEN 0
    ELSE 256 * FromBytes(SubSeq(s, 1, Len(s) - 1)) + s[Len(s)]

Zeros(n) == [i \in 1..n |-> 0]

\* bytes([b]) * n
Repeat(b, n) == [i \in 1..n |-> b]

\* TRUE, once v has been computed: a ...Run operator computes the state its
\* first half leaves before it starts the second half
Ready(v) == v = v

MAGIC == <<71, 67, 67>>

VERSION_STEP1 == 1
VERSION_STEP2 == 2
VERSION_STEP3 == 3
VERSION_STEP4 == 4

-----------------------------------------------------------------------------
(* HuffmanNode *)

\* symbol = None of an internal node
None == -1
\* left = None / right = None of a leaf
Nil == [nil |-> TRUE]

HuffmanNode(f, sym, l, r) == [freq |-> f, symbol |-> sym, left |-> l, right |-> r]

\* the test "node.symbol is not None and node.left is None and node.right is None"
IsLeaf(node) == node.symbol # None /\ node.left = Nil /\ node.right = Nil

\* build_huffman_tree returning None
NoTree == [notree |-> TRUE]

-----------------------------------------------------------------------------
(* build_freq_table *)

FreqStep(fr, d, i) == [fr EXCEPT ![d[i + 1]] = @ + 1]

RECURSIVE FreqRun(_, _, _, _)
FreqRun(fr, d, lo, hi) ==
    IF hi <= lo THEN fr
    ELSE IF hi = lo + 1 THEN FreqStep(fr, d, lo)
    ELSE LET mid == (lo + hi) \div 2
             m   == FreqRun(fr, d, lo, mid)
         IN  IF Ready(m) THEN FreqRun(m, d, mid, hi) ELSE m

build_freq_table(d) == FreqRun([b \in Byte |-> 0], d, 0, Len(d))


-----------------------------------------------------------------------------
(* build_huffman_tree *)

\* TupleLess as it would be if the tuples were ordered by the counter alone
TupleLessByCounter(e1, e2) == e1[2] < e2[2]

\* Python's order on the heap's tuples (f, counter, node); the counter values
\* of one build are pairwise different, so the node is never compared
TupleLess(e1, e2) == e1[1] < e2[1] \/ (e1[1] = e2[1] /\ e1[2] < e2[2])

\* HeapMinima as it would be if the heap were keyed by the weight alone
HeapMinimaByWeight(heap) == {e \in heap : \A o \in heap : e[1] <= o[1]}

\* the entries heapq.heappop may return: the smallest of the heap
HeapMinima(heap) == {e \in heap : \A o \in heap \ {e} : TupleLess(e, o)}

heappop(heap) == CHOOSE e \in HeapMinima(heap) : TRUE

\* heapq.heappush(heap, (f, next(counter), node))
heappush(st, f, node) ==
    [heap |-> st.heap \cup {<<f, st.counter, node>>}, counter |-> st.counter + 1]

\* body of "for sym, f in enumerate(freq)"
LeafStep(st, fr, sym) ==
    IF fr[sym] > 0 THEN heappush(st, fr[sym], HuffmanNode(fr[sym], sym, Nil, Nil))
    ELSE st

RECURSIVE LeafRun(_, _, _, _)
LeafRun(st, fr, lo, hi) ==
    IF hi <= lo THEN st
    ELSE IF hi = lo + 1 THEN LeafStep(st, fr, lo)
    ELSE LET mid == (lo + hi) \div 2
             m   == LeafRun(st, fr, lo, mid)
         IN  IF Ready(m) THEN LeafRun(m, fr, mid, hi) ELSE m

\* heap and counter after the leaf loop
PushLeaves(fr) == LeafRun([heap |-> {}, counter |-> 0], fr, 0, 256)

\* AddDummy as it would be without the "% 256"
AddDummyNoWrap(st) ==
    IF Cardinality(st.heap) = 1
    THEN LET only == (CHOOSE e \in st.heap : TRUE)[3]
             dummy_symbol == only.symbol + 1
         IN  heappush(st, 0, HuffmanNode(0, dummy_symbol, Nil, Nil))
    ELSE st

\* "if len(heap) == 1": the zero-weight dummy leaf
AddDummy(st) ==
    IF Cardinality(st.heap) = 1
    THEN LET only == (CHOOSE e \in st.heap : TRUE)[3]
             dummy_symbol == (only.symbol + 1) % 256
         IN  heappush(st, 0, HuffmanNode(0, dummy_symbol, Nil, Nil))
    ELSE st

\* Merge as it would be if the parent took the weight of its first child
MergeLeftWeight(st, e1, e2) ==
    LET parent == HuffmanNode(e1[1], None, e1[3], e2[3])
    IN  heappush([st EXCEPT !.heap = (@ \ {e1}) \ {e2}], parent.freq, parent)

\* Merge as it would be if the second entry popped became the left child
MergeRightFirst(st, e1, e2) ==
    LET parent == HuffmanNode(e1[1] + e2[1], None, e2[3], e1[3])
    IN  heappush([st EXCEPT !.heap = (@ \ {e1}) \ {e2}], parent.freq, parent)

\* one iteration of "while len(heap) > 1" in which the two pops returned e1, e2
Merge(st, e1, e2) ==
    LET parent == HuffmanNode(e1[1] + e2[1], None, e1[3], e2[3])
    IN  heappush([st EXCEPT !.heap = (@ \ {e1}) \ {e2}], parent.freq, parent)

MergeStep(st) ==
    IF Cardinality(st.heap) > 1
    THEN LET e1 == heappop(st.heap)
             e2 == heappop(st.heap \ {e1})
         IN  Merge(st, e1, e2)
    ELSE st

\* k iterations of the while loop (an iteration with len(heap) <= 1 is no iteration)
RECURSIVE MergeRun(_, _)
MergeRun(st, k) ==
    IF k <= 0 THEN st
    ELSE IF k = 1 THEN MergeStep(st)
    ELSE LET m == MergeRun(st, k \div 2)
         IN  IF Ready(m) THEN MergeRun(m, k - (k \div 2)) ELSE m

\* "return heap[0][2]"
HeapRoot(st) == (CHOOSE e \in st.heap : TRUE)[3]

build_huffman_tree(fr) ==
    LET st0 == PushLeaves(fr)
    IN  IF st0.heap = {} THEN NoTree
        ELSE LET st1 == AddDummy(st0)
             IN  HeapRoot(MergeRun(st1, Cardinality(st1.heap) - 1))

-----------------------------------------------------------------------------
(* build_code_table *)

NoCodes == [s \in {} |-> <<>>]

\* dfs as it would be if both descents appended 0
RECURSIVE dfsSamePath(_, _)
dfsSamePath(node, path) ==
    IF IsLeaf(node)
    THEN node.symbol :> (IF path = <<>> THEN <<0>> ELSE path)
    ELSE LET l == IF node.left # Nil THEN dfsSamePath(node.left, Append(path, 0)) ELSE NoCodes
             r == IF node.right # Nil THEN dfsSamePath(node.right, Append(path, 0)) ELSE NoCodes
         IN  r @@ l

\* the inner dfs; the dict it fills is returned, a later assignment to the
\* same key replacing an earlier one
RECURSIVE dfs(_, _)
dfs(node, path) ==
    IF IsLeaf(node)
    THEN node.symbol :> (IF path = <<>> THEN <<0>> ELSE path)
    ELSE LET l == IF node.left # Nil THEN dfs(node.left, Append(path, 0)) ELSE NoCodes
             r == IF node.right # Nil THEN dfs(node.right, Append(path, 1)) ELSE NoCodes
         IN  r @@ l

build_code_table(root) == dfs(root, <<>>)

-----------------------------------------------------------------------------
(* encode_data *)

RECURSIVE Pow2(_)
Pow2(k) == IF k = 0 THEN 1 ELSE 2 * Pow2(k - 1)

\* body of "for bit in codes[b]"
BitStep(st, bit) ==
    LET cb == st.current_byte * 2 + bit
        bc == st.bit_count + 1
    IN  IF bc = 8
        THEN [out_bytes |-> Append(st.out_bytes, cb), current_byte |-> 0, bit_count |-> 0]
        ELSE [out_bytes |-> st.out_bytes, current_byte |-> cb, bit_count |-> bc]

RECURSIVE BitsRun(_, _, _)
BitsRun(st, code, j) ==
    IF j > Len(code) THEN st ELSE BitsRun(BitStep(st, code[j]), code, j + 1)

\* body of "for b in data"
EncStep(st, d, codes, i) == BitsRun(st, codes[d[i + 1]], 1)

RECURSIVE EncRun(_, _, _, _, _)
EncRun(st, d, codes, lo, hi) ==
    IF hi <= lo THEN st
    ELSE IF hi = lo + 1 THEN EncStep(st, d, codes, lo)
    ELSE LET mid == (lo + hi) \div 2
             m   == EncRun(st, d, codes, lo, mid)
         IN  IF Ready(m) THEN EncRun(m, d, codes, mid, hi) ELSE m

\* (bitstream, lastbits)
encode_data(d, codes) ==
    IF d = <<>> THEN <<<<>>, 0>>
    ELSE LET st == EncRun([out_bytes |-> <<>>, current_byte |-> 0, bit_count |-> 0],
                          d, codes, 0, Len(d))
         IN  IF st.bit_count > 0
             THEN <<Append(st.out_bytes, st.current_byte * Pow2(8 - st.bit_count)),
                    st.bit_count>>
             ELSE <<st.out_bytes, 8>>

\* encode_data of gcc_huffman_step1.py: the same loop, without the test for
\* empty data
encode_data_step1(d, codes) ==
    LET st == EncRun([out_bytes |-> <<>>, current_byte |-> 0, bit_count |-> 0],
                     d, codes, 0, Len(d))
    IN  IF st.bit_count > 0
        THEN <<Append(st.out_bytes, st.current_byte * Pow2(8 - st.bit_count)),
               st.bit_count>>
        ELSE <<st.out_bytes, 8>>

-----------------------------------------------------------------------------
(* decode_bitstream *)

\* DecBit as it would be with the two children exchanged
DecBitSwapped(st, root, N, byte, bit_index) ==
    IF st.returned THEN st
    ELSE LET bit  == (byte \div Pow2(7 - bit_index)) % 2
             node == IF bit = 0 THEN st.node.right ELSE st.node.left
         IN  IF IsLeaf(node)
             THEN [out |-> Append(st.out, node.symbol),
                   node |-> root,
                   total_symbols |-> st.total_symbols + 1,
                   returned |-> (st.total_symbols + 1 = N)]
             ELSE [st EXCEPT !.node = node]

\* DecBit as it would be without "if total_symbols == N: return"
DecBitNoStop(st, root, N, byte, bit_index) ==
    IF st.returned THEN st
    ELSE LET bit  == (byte \div Pow2(7 - bit_index)) % 2
             node == IF bit = 0 THEN st.node.left ELSE st.node.right
         IN  IF IsLeaf(node)
             THEN [out |-> Append(st.out, node.symbol),
                   node |-> root,
                   total_symbols |-> st.total_symbols + 1,
                   returned |-> FALSE]
             ELSE [st EXCEPT !.node = node]

\* body of "for bit_index in range(bits_in_this_byte)"; returned = the
\* function has executed "return bytes(out)" inside the loop
DecBit(st, root, N, byte, bit_index) ==
    IF st.returned THEN st
    ELSE LET bit  == (byte \div Pow2(7 - bit_index)) % 2
             node == IF bit = 0 THEN st.node.left ELSE st.node.right
         IN  IF IsLeaf(node)
             THEN [out |-> Append(st.out, node.symbol),
                   node |-> root,
                   total_symbols |-> st.total_symbols + 1,
                   returned |-> (st.total_symbols + 1 = N)]
             ELSE [st EXCEPT !.node = node]

RECURSIVE DecBits(_, _, _, _, _, _)
DecBits(st, root, N, byte, bit_index, bits_in_this_byte) ==
    IF bit_index >= bits_in_this_byte THEN st
    ELSE DecBits(DecBit(st, root, N, byte, bit_index), root, N, byte,
                 bit_index + 1, bits_in_this_byte)

\* DecByte as it would be if the final byte were read in full
DecByteAllBits(st, root, bitstream, N, lastbits, i) ==
    DecBits(st, root, N, bitstream[i + 1], 0, 8)

\* body of "for i, byte in enumerate(bitstream)"
DecByte(st, root, bitstream, N, lastbits, i) ==
    LET total_bytes == Len(bitstream)
        bits_in_this_byte == IF i = total_bytes - 1 /\ lastbits # 0 THEN lastbits ELSE 8
    IN  DecBits(st, root, N, bitstream[i + 1], 0, bits_in_this_byte)

RECURSIVE DecRun(_, _, _, _, _, _, _)
DecRun(st, root, bitstream, N, lastbits, lo, hi) ==
    IF hi <= lo THEN st
    ELSE IF hi = lo + 1 THEN DecByte(st, root, bitstream, N, lastbits, lo)
    ELSE LET mid == (lo + hi) \div 2
             m   == DecRun(st, root, bitstream, N, lastbits, lo, mid)
         IN  IF Ready(m) THEN DecRun(m, root, bitstream, N, lastbits, mid, hi) ELSE m

decode_bitstream(root, bitstream, N, lastbits) ==
    IF N = 0 THEN <<>>
    ELSE IF root = NoTree THEN <<>>
    ELSE DecRun([out |-> <<>>, node |-> root, total_symbols |-> 0, returned |-> FALSE],
                root, bitstream, N, lastbits, 0, Len(bitstream)).out

\* the decoding loop of decompress_bytes of gcc_huffman_step1.py: the final
\* byte gives lastbits bits, whatever lastbits is
DecByteStep1(st, root, bitstream, N, lastbits, i) ==
    LET total_bytes == Len(bitstream)
        bits_in_this_byte == IF i = total_bytes - 1 THEN lastbits ELSE 8
    IN  DecBits(st, root, N, bitstream[i + 1], 0, bits_in_this_byte)

RECURSIVE DecRunStep1(_, _, _, _, _, _, _)
DecRunStep1(st, root, bitstream, N, lastbits, lo, hi) ==
    IF hi <= lo THEN st
    ELSE IF hi = lo + 1 THEN DecByteStep1(st, root, bitstream, N, lastbits, lo)
    ELSE LET mid == (lo + hi) \div 2
             m   == DecRunStep1(st, root, bitstream, N, lastbits, lo, mid)
         IN  IF Ready(m) THEN DecRunStep1(m, root, bitstream, N, lastbits, mid, hi) ELSE m

\* decompress_bytes of gcc_huffman_step1.py from "if N == 0" on
decode_step1(root, bitstream, N, lastbits) ==
    IF N = 0 THEN <<>>
    ELSE IF root = NoTree THEN <<>>
    ELSE DecRunStep1([out |-> <<>>, node |-> root, total_symbols |-> 0, returned |-> FALSE],
                     root, bitstream, N, lastbits, 0, Len(bitstream)).out

-----------------------------------------------------------------------------
(* huffman_compress_core / huffman_decompress_core *)

\* huffman_compress_core as it would be if the empty stream reported a full
\* last byte
huffman_compress_core_full(d) ==
    LET fr   == build_freq_table(d)
        root == build_huffman_tree(fr)
    IN  IF root = NoTree THEN <<fr, 8, <<>>>>
        ELSE LET enc == encode_data(d, build_code_table(root))
             IN  <<fr, enc[2], enc[1]>>

\* (freq, lastbits, bitstream)
huffman_compress_core(d) ==
    LET fr   == build_freq_table(d)
        root == build_huffman_tree(fr)
    IN  IF root = NoTree THEN <<fr, 0, <<>>>>
        ELSE LET enc == encode_data(d, build_code_table(root))
             IN  <<fr, enc[2], enc[1]>>

huffman_decompress_core(fr, bitstream, N, lastbits) ==
    LET root == build_huffman_tree(fr)
    IN  IF root = NoTree \/ N = 0 THEN <<>>
        ELSE decode_bitstream(root, bitstream, N, lastbits)

-----------------------------------------------------------------------------
(* Results of the container functions *)

\* compress_bytes_vK returned container c
Compressed(c) == [err |-> "none", out |-> c]
\* compress_bytes_vK raised
CompressRaised(e) == [err |-> e, out |-> <<>>]

\* decompress_bytes_vK returned out; decoded is what huffman_decompress_core
\* returned for the primary stream (v1: the output, v2: mask, v3/v4: id_bytes)
Returned(out, decoded) == [status |-> "ok", out |-> out, decoded |-> decoded]
\* decompress_bytes_vK raised
Raised(e) == [status |-> e, out |-> <<>>, decoded |-> <<>>]

\* "for f in freq: header += f.to_bytes(4, 'big')"
FreqBytes(fr) == [i \in 1..(256 * 4) |-> ToBytes(fr[(i - 1) \div 4], 4)[((i - 1) % 4) + 1]]

\* "for _ in range(256): f = int.from_bytes(comp[idx:idx+4], 'big'); idx += 4"
ParseFreq(c, idx) == [b \in Byte |-> FromBytes(Slice(c, idx + 4 * b, idx + 4 * b + 4))]

-----------------------------------------------------------------------------
(* Step 1: format v1 *)

compress_bytes_v1(d) ==
    LET N    == Len(d)
        core == huffman_compress_core(d)
    IN  Compressed(MAGIC \o <<VERSION_STEP1>> \o ToBytes(N, 8)
                   \o FreqBytes(core[1]) \o <<core[2]>> \o core[3])

\* decompress_bytes_v1 as it would be if the version were tested before the magic
decompress_bytes_v1_VersionFirst(c) ==
    LET min_header == 3 + 1 + 8 + 256 * 4 + 1
    IN  IF Len(c) < min_header THEN Raised("ValueError: too short")
        ELSE IF c[3 + 1] # VERSION_STEP1 THEN Raised("ValueError: version")
        ELSE IF Slice(c, 0, 3) # MAGIC THEN Raised("ValueError: magic")
        ELSE LET N         == FromBytes(Slice(c, 4, 12))
                 fr        == ParseFreq(c, 12)
                 lastbits  == c[12 + 256 * 4 + 1]
                 bitstream == Slice(c, 12 + 256 * 4 + 1, Len(c))
                 out       == huffman_decompress_core(fr, bitstream, N, lastbits)
             IN  Returned(out, out)

decompress_bytes_v1(c) ==
    LET min_header == 3 + 1 + 8 + 256 * 4 + 1
    IN  IF Len(c) < min_header THEN Raised("ValueError: too short")
        ELSE IF Slice(c, 0, 3) # MAGIC THEN Raised("ValueError: magic")
        ELSE IF c[3 + 1] # VERSION_STEP1 THEN Raised("ValueError: version")
        ELSE LET N         == FromBytes(Slice(c, 4, 12))
                 fr        == ParseFreq(c, 12)
                 lastbits  == c[12 + 256 * 4 + 1]
                 bitstream == Slice(c, 12 + 256 * 4 + 1, Len(c))
                 out       == huffman_decompress_core(fr, bitstream, N, lastbits)
             IN  Returned(out, out)

-----------------------------------------------------------------------------
(* gcc_huffman_step1.py: the standalone Step 1 program *)

VERSION == 1

\* compress_bytes as it would be if the empty-file branch stored the lastbits
\* that encode_data reports for no data
compress_bytes_EmptyAsEncoded(d) ==
    LET N      == Len(d)
        fr     == build_freq_table(d)
        root   == build_huffman_tree(fr)
        header == MAGIC \o <<VERSION>> \o ToBytes(N, 8) \o FreqBytes(fr)
    IN  IF root = NoTree THEN Compressed(header \o <<encode_data_step1(d, NoCodes)[2]>>)
        ELSE LET enc == encode_data_step1(d, build_code_table(root))
             IN  Compressed(header \o <<enc[2]>> \o enc[1])

compress_bytes(d) ==
    LET N      == Len(d)
        fr     == build_freq_table(d)
        root   == build_huffman_tree(fr)
        header == MAGIC \o <<VERSION>> \o ToBytes(N, 8) \o FreqBytes(fr)
    IN  IF root = NoTree THEN Compressed(header \o <<0>>)
        ELSE LET enc == encode_data_step1(d, build_code_table(root))
             IN  Compressed(header \o <<enc[2]>> \o enc[1])

decompress_bytes(c) ==
    LET min_header == 3 + 1 + 8 + 256 * 4 + 1
    IN  IF Len(c) < min_header THEN Raised("ValueError: too short")
        ELSE IF Slice(c, 0, 3) # MAGIC THEN Raised("ValueError: magic")
        ELSE IF c[3 + 1] # VERSION THEN Raised("ValueError: version")
        ELSE LET N         == FromBytes(Slice(c, 4, 12))
                 fr        == ParseFreq(c, 12)
                 lastbits  == c[12 + 256 * 4 + 1]
                 bitstream == Slice(c, 12 + 256 * 4 + 1, Len(c))
                 out       == decode_step1(build_huffman_tree(fr), bitstream, N, lastbits)
             IN  Returned(out, out)

-----------------------------------------------------------------------------
(* Step 2: format v2 *)

\* set("aeiouAEIOU")
VOWELS == {97, 101, 105, 111, 117, 65, 69, 73, 79, 85}

\* chr(b).isalpha() for a byte b: the letters of Latin-1
IsAlpha(b) ==
    \/ b \in 65..90
    \/ b \in 97..122
    \/ b \in {170, 181, 186}
    \/ b \in 192..214
    \/ b \in 216..246
    \/ b \in 248..255

\* ord('V'), ord('C'), ord('O')
MaskV == 86
MaskC == 67
MaskO == 79

\* SplitStep as it would be if isalpha() were tested before the vowel set
SplitStepAlphaFirst(st, d, i) ==
    LET b == d[i + 1]
    IN  IF IsAlpha(b)
        THEN [st EXCEPT !.mask = Append(@, MaskC), !.cons = Append(@, b)]
        ELSE IF b \in VOWELS
        THEN [st EXCEPT !.mask = Append(@, MaskV), !.vowels = Append(@, b)]
        ELSE [st EXCEPT !.mask = Append(@, MaskO), !.cons = Append(@, b)]

\* SplitStep as it would be if the last branch forgot cons.append(b)
SplitStepDropOther(st, d, i) ==
    LET b == d[i + 1]
    IN  IF b \in VOWELS
        THEN [st EXCEPT !.mask = Append(@, MaskV), !.vowels = Append(@, b)]
        ELSE IF IsAlpha(b)
        THEN [st EXCEPT !.mask = Append(@, MaskC), !.cons = Append(@, b)]
        ELSE [st EXCEPT !.mask = Append(@, MaskO)]

\* body of "for b in data" in split_streams_v2
SplitStep(st, d, i) ==
    LET b == d[i + 1]
    IN  IF b \in VOWELS
        THEN [st EXCEPT !.mask = Append(@, MaskV), !.vowels = Append(@, b)]
        ELSE IF IsAlpha(b)
        THEN [st EXCEPT !.mask = Append(@, MaskC), !.cons = Append(@, b)]
        ELSE [st EXCEPT !.mask = Append(@, MaskO), !.cons = Append(@, b)]

RECURSIVE SplitRun(_, _, _, _)
SplitRun(st, d, lo, hi) ==
    IF hi <= lo THEN st
    ELSE IF hi = lo + 1 THEN SplitStep(st, d, lo)
    ELSE LET mid == (lo + hi) \div 2
             m   == SplitRun(st, d, lo, mid)
         IN  IF Ready(m) THEN SplitRun(m, d, mid, hi) ELSE m

\* (mask, vowels, cons) as a record
split_streams_v2(d) == SplitRun([mask |-> <<>>, vowels |-> <<>>, cons |-> <<>>], d, 0, Len(d))

\* MergeMaskStep as it would be if it tested for 'C' and sent the rest to vowels
MergeMaskStepTestC(st, mask, vowels, cons, i) ==
    IF st.err THEN st
    ELSE IF mask[i + 1] # MaskC
    THEN IF st.iv >= Len(vowels) THEN [st EXCEPT !.err = TRUE]
         ELSE [st EXCEPT !.out = Append(@, vowels[st.iv + 1]), !.iv = @ + 1]
    ELSE IF st.ic >= Len(cons) THEN [st EXCEPT !.err = TRUE]
         ELSE [st EXCEPT !.out = Append(@, cons[st.ic + 1]), !.ic = @ + 1]

\* body of "for m in mask" in merge_streams_v2; err: an index was out of range
MergeMaskStep(st, mask, vowels, cons, i) ==
    IF st.err THEN st
    ELSE IF mask[i + 1] = MaskV
    THEN IF st.iv >= Len(vowels) THEN [st EXCEPT !.err = TRUE]
         ELSE [st EXCEPT !.out = Append(@, vowels[st.iv + 1]), !.iv = @ + 1]
    ELSE IF st.ic >= Len(cons) THEN [st EXCEPT !.err = TRUE]
         ELSE [st EXCEPT !.out = Append(@, cons[st.ic + 1]), !.ic = @ + 1]

RECURSIVE MergeMaskRun(_, _, _, _, _, _)
MergeMaskRun(st, mask, vowels, cons, lo, hi) ==
    IF hi <= lo THEN st
    ELSE IF hi = lo + 1 THEN MergeMaskStep(st, mask, vowels, cons, lo)
    ELSE LET mid == (lo + hi) \div 2
             m   == MergeMaskRun(st, mask, vowels, cons, lo, mid)
         IN  IF Ready(m) THEN MergeMaskRun(m, mask, vowels, cons, mid, hi) ELSE m

\* the final loop state: out, and err when vowels[iv] or cons[ic] raised IndexError
merge_streams_v2(mask, vowels, cons) ==
    MergeMaskRun([out |-> <<>>, iv |-> 0, ic |-> 0, err |-> FALSE],
                 mask, vowels, cons, 0, Len(mask))

\* StreamHeader as it would be if BSIZE were written before LASTBITS
StreamHeaderSizeFirst(core) == FreqBytes(core[1]) \o ToBytes(Len(core[3]), 8) \o <<core[2]>>

\* FREQ[256]*4 | LASTBITS(1) | BSIZE(8) of one stream
StreamHeader(core) == FreqBytes(core[1]) \o <<core[2]>> \o ToBytes(Len(core[3]), 8)

compress_bytes_v2(d) ==
    LET N      == Len(d)
        s      == split_streams_v2(d)
        core_m == huffman_compress_core(s.mask)
        core_v == huffman_compress_core(s.vowels)
        core_c == huffman_compress_core(s.cons)
    IN  Compressed(MAGIC \o <<VERSION_STEP2>> \o ToBytes(N, 8)
                   \o ToBytes(Len(s.vowels), 8) \o ToBytes(Len(s.cons), 8)
                   \o StreamHeader(core_m) \o StreamHeader(core_v) \o StreamHeader(core_c)
                   \o core_m[3] \o core_v[3] \o core_c[3])

decompress_bytes_v2(c) ==
    LET min_header_base == 3 + 1 + 8 + 8 + 8
        stream == 256 * 4 + 1 + 8
        idx_m  == min_header_base
        idx_v  == idx_m + stream
        idx_c  == idx_v + stream
        idx_d  == idx_c + stream
    IN  IF Len(c) < min_header_base THEN Raised("ValueError: too short")
        ELSE IF Slice(c, 0, 3) # MAGIC THEN Raised("ValueError: magic")
        ELSE IF c[3 + 1] # VERSION_STEP2 THEN Raised("ValueError: version")
        \* last_m = comp[idx], last_v = comp[idx], last_c = comp[idx]
        ELSE IF idx_m + 256 * 4 >= Len(c) THEN Raised("IndexError")
        ELSE IF idx_v + 256 * 4 >= Len(c) THEN Raised("IndexError")
        ELSE IF idx_c + 256 * 4 >= Len(c) THEN Raised("IndexError")
        ELSE LET N       == FromBytes(Slice(c, 4, 12))
                 len_v   == FromBytes(Slice(c, 12, 20))
                 len_c   == FromBytes(Slice(c, 20, 28))
                 freq_m  == ParseFreq(c, idx_m)
                 last_m  == c[idx_m + 256 * 4 + 1]
                 bsize_m == FromBytes(Slice(c, idx_m + 256 * 4 + 1, idx_m + stream))
                 freq_v  == ParseFreq(c, idx_v)
                 last_v  == c[idx_v + 256 * 4 + 1]
                 bsize_v == FromBytes(Slice(c, idx_v + 256 * 4 + 1, idx_v + stream))
                 freq_c  == ParseFreq(c, idx_c)
                 last_c  == c[idx_c + 256 * 4 + 1]
                 bsize_c == FromBytes(Slice(c, idx_c + 256 * 4 + 1, idx_c + stream))
                 end_m   == idx_d + bsize_m
                 bs_m    == Slice(c, idx_d, end_m)
                 end_v   == end_m + bsize_v
                 bs_v    == Slice(c, end_m, end_v)
                 end_c   == end_v + bsize_c
                 bs_c    == Slice(c, end_v, end_c)
                 mask    == huffman_decompress_core(freq_m, bs_m, N, last_m)
                 vowels  == huffman_decompress_core(freq_v, bs_v, len_v, last_v)
                 cons    == huffman_decompress_core(freq_c, bs_c, len_c, last_c)
                 merged  == merge_streams_v2(mask, vowels, cons)
             IN  IF merged.err THEN Raised("IndexError")
                 ELSE Returned(merged.out, mask)

-----------------------------------------------------------------------------
(* Step 3 / Step 4: tokenizers *)

\* _is_ascii_letter
is_ascii_letter(b) == (65 <= b /\ b <= 90) \/ (97 <= b /\ b <= 122)

\* _VOWEL_BYTES
VOWEL_BYTES == {97, 101, 105, 111, 117, 65, 69, 73, 79, 85}

\* _is_vowel_byte
is_vowel_byte(b) == b \in VOWEL_BYTES

\* SyllStep as it would be if a vowel closed the syllable before it was added
SyllStepVowelFirst(st, word, i) ==
    LET b == word[i + 1]
    IN  IF is_vowel_byte(b) /\ st.current # <<>>
        THEN [syllables |-> Append(st.syllables, st.current), current |-> <<b>>]
        ELSE [syllables |-> st.syllables, current |-> Append(st.current, b)]

\* body of "for b in word" in split_word_into_syllables
SyllStep(st, word, i) ==
    LET b       == word[i + 1]
        current == Append(st.current, b)
    IN  IF is_vowel_byte(b)
        THEN [syllables |-> Append(st.syllables, current), current |-> <<>>]
        ELSE [syllables |-> st.syllables, current |-> current]

RECURSIVE SyllRun(_, _, _, _)
SyllRun(st, word, lo, hi) ==
    IF hi <= lo THEN st
    ELSE IF hi = lo + 1 THEN SyllStep(st, word, lo)
    ELSE LET mid == (lo + hi) \div 2
             m   == SyllRun(st, word, lo, mid)
         IN  IF Ready(m) THEN SyllRun(m, word, mid, hi) ELSE m

split_word_into_syllables(word) ==
    LET st == SyllRun([syllables |-> <<>>, current |-> <<>>], word, 0, Len(word))
    IN  IF st.current # <<>> THEN Append(st.syllables, st.current) ELSE st.syllables

\* the inner loops "while i < n and _is_ascii_letter(data[i])" (letters = TRUE)
\* and "while i < n and not _is_ascii_letter(data[i])" (letters = FALSE): the
\* value of i when the loop ends
RECURSIVE ScanRun(_, _, _)
ScanRun(d, i, letters) ==
    IF i < Len(d) /\ is_ascii_letter(d[i + 1]) = letters
    THEN ScanRun(d, i + 1, letters)
    ELSE i

\* body of "while i < n" in tokenize_syllables_and_other
SyllTokStep(st, d) ==
    IF st.i < Len(d)
    THEN LET start == st.i
             b     == d[st.i + 1]
         IN  IF is_ascii_letter(b)
             THEN LET i    == ScanRun(d, start + 1, TRUE)
                      word == Slice(d, start, i)
                  IN  [i |-> i, tokens |-> st.tokens \o split_word_into_syllables(word)]
             ELSE LET i == ScanRun(d, start + 1, FALSE)
                  IN  [i |-> i, tokens |-> Append(st.tokens, Slice(d, start, i))]
    ELSE st

\* WordTokStep as it would be if the letter branch took one byte per token
WordTokStepOneLetter(st, d) ==
    IF st.i < Len(d)
    THEN LET start == st.i
             b     == d[st.i + 1]
         IN  IF is_ascii_letter(b)
             THEN [i |-> start + 1, tokens |-> Append(st.tokens, Slice(d, start, start + 1))]
             ELSE LET i == ScanRun(d, start + 1, FALSE)
                  IN  [i |-> i, tokens |-> Append(st.tokens, Slice(d, start, i))]
    ELSE st

\* body of "while i < n" in tokenize_words_and_other
WordTokStep(st, d) ==
    IF st.i < Len(d)
    THEN LET start == st.i
             b     == d[st.i + 1]
         IN  IF is_ascii_letter(b)
             THEN LET i == ScanRun(d, start + 1, TRUE)
                  IN  [i |-> i, tokens |-> Append(st.tokens, Slice(d, start, i))]
             ELSE LET i == ScanRun(d, start + 1, FALSE)
                  IN  [i |-> i, tokens |-> Append(st.tokens, Slice(d, start, i))]
    ELSE st

\* k iterations of the while loop (an iteration with i >= n is no iteration)
RECURSIVE SyllTokRun(_, _, _)
SyllTokRun(st, d, k) ==
    IF k <= 0 THEN st
    ELSE IF k = 1 THEN SyllTokStep(st, d)
    ELSE LET m == SyllTokRun(st, d, k \div 2)
         IN  IF Ready(m) THEN SyllTokRun(m, d, k - (k \div 2)) ELSE m

RECURSIVE WordTokRun(_, _, _)
WordTokRun(st, d, k) ==
    IF k <= 0 THEN st
    ELSE IF k = 1 THEN WordTokStep(st, d)
    ELSE LET m == WordTokRun(st, d, k \div 2)
         IN  IF Ready(m) THEN WordTokRun(m, d, k - (k \div 2)) ELSE m

\* every iteration advances i by at least one, so Len(d) iterations end the loop
tokenize_syllables_and_other(d) == SyllTokRun([i |-> 0, tokens |-> <<>>], d, Len(d)).tokens

tokenize_words_and_other(d) == WordTokRun([i |-> 0, tokens |-> <<>>], d, Len(d)).tokens

-----------------------------------------------------------------------------
(* Step 3 / Step 4: vocabulary and containers *)

\* "Per ora Step3 richiede al massimo 256 token distinti"
MaxVocab == 256

\* VocabTooBig as it would be with ">=" for ">"
VocabTooBigOffByOne(vocab_size) == vocab_size >= MaxVocab

\* "if vocab_size > 256"
VocabTooBig(vocab_size) == vocab_size > MaxVocab

Range(f) == {f[x] : x \in DOMAIN f}

\* VocabStep as it would be without the "if tok not in vocab" test
VocabStepNoTest(vocab_list, tokens, i) ==
    LET tok == tokens[i + 1]
    IN  Append(vocab_list, tok)

\* body of "for tok in tokens: if tok not in vocab: ..."; vocab is the inverse
\* of vocab_list (token -> position), so only vocab_list is kept
VocabStep(vocab_list, tokens, i) ==
    LET tok == tokens[i + 1]
    IN  IF tok \notin Range(vocab_list) THEN Append(vocab_list, tok) ELSE vocab_list

RECURSIVE VocabRun(_, _, _, _)
VocabRun(vocab_list, tokens, lo, hi) ==
    IF hi <= lo THEN vocab_list
    ELSE IF hi = lo + 1 THEN VocabStep(vocab_list, tokens, lo)
    ELSE LET mid == (lo + hi) \div 2
             m   == VocabRun(vocab_list, tokens, lo, mid)
         IN  IF Ready(m) THEN VocabRun(m, tokens, mid, hi) ELSE m

BuildVocab(tokens) == VocabRun(<<>>, tokens, 0, Len(tokens))

\* vocab[tok]
VocabId(vocab_list, tok) == CHOOSE k \in 0..(Len(vocab_list) - 1) : vocab_list[k + 1] = tok

\* "for tok in tokens: id_stream.append(vocab[tok])"
IdStream(vocab_list, tokens) == [i \in 1..Len(tokens) |-> VocabId(vocab_list, tokens[i])]

\* "for tok_bytes in vocab_list: header += L.to_bytes(2, 'big'); header += tok_bytes"
\* for the entries lo..hi-1
RECURSIVE VocabBytes(_, _, _)
VocabBytes(vocab_list, lo, hi) ==
    IF hi <= lo THEN <<>>
    ELSE IF hi = lo + 1 THEN ToBytes(Len(vocab_list[lo + 1]), 2) \o vocab_list[lo + 1]
    ELSE LET mid == (lo + hi) \div 2
         IN  VocabBytes(vocab_list, lo, mid) \o VocabBytes(vocab_list, mid, hi)

\* compress_bytes_v3 and compress_bytes_v4 after the tokenizer call: the two
\* bodies differ in the version byte alone
CompressTokens(tokens, ver) ==
    LET N_tokens   == Len(tokens)
        vocab_list == BuildVocab(tokens)
        vocab_size == Len(vocab_list)
    IN  IF VocabTooBig(vocab_size) THEN CompressRaised("ValueError: vocab")
        ELSE IF \E k \in 1..vocab_size : Len(vocab_list[k]) > 65535
        THEN CompressRaised("ValueError: token")
        ELSE LET core == huffman_compress_core(IdStream(vocab_list, tokens))
             IN  Compressed(MAGIC \o <<ver>> \o ToBytes(N_tokens, 8)
                            \o ToBytes(vocab_size, 2)
                            \o VocabBytes(vocab_list, 0, vocab_size)
                            \o FreqBytes(core[1]) \o <<core[2]>> \o core[3])

compress_bytes_v3(d) == CompressTokens(tokenize_syllables_and_other(d), VERSION_STEP3)

compress_bytes_v4(d) == CompressTokens(tokenize_words_and_other(d), VERSION_STEP4)

\* ParseVocabStep as it would be if the token were read from the LEN field on
ParseVocabStepNoSkip(st, c) ==
    IF st.err # "none" THEN st
    ELSE IF st.idx + 2 > Len(c) THEN [st EXCEPT !.err = "ValueError: truncated"]
    ELSE LET L == FromBytes(Slice(c, st.idx, st.idx + 2))
         IN  IF st.idx + 2 + L > Len(c) THEN [st EXCEPT !.err = "ValueError: truncated"]
             ELSE [idx |-> st.idx + 2 + L,
                   vocab_list |-> Append(st.vocab_list, Slice(c, st.idx, st.idx + L)),
                   err |-> "none"]

\* body of "for _ in range(vocab_size)" of the decoders; err: what was raised
ParseVocabStep(st, c) ==
    IF st.err # "none" THEN st
    ELSE IF st.idx + 2 > Len(c) THEN [st EXCEPT !.err = "ValueError: truncated"]
    ELSE LET L == FromBytes(Slice(c, st.idx, st.idx + 2))
         IN  IF st.idx + 2 + L > Len(c) THEN [st EXCEPT !.err = "ValueError: truncated"]
             ELSE [idx |-> st.idx + 2 + L,
                   vocab_list |-> Append(st.vocab_list, Slice(c, st.idx + 2, st.idx + 2 + L)),
                   err |-> "none"]

RECURSIVE ParseVocabRun(_, _, _)
ParseVocabRun(st, c, k) ==
    IF k <= 0 THEN st
    ELSE IF k = 1 THEN ParseVocabStep(st, c)
    ELSE LET m == ParseVocabRun(st, c, k \div 2)
         IN  IF Ready(m) THEN ParseVocabRun(m, c, k - (k \div 2)) ELSE m

\* "for b in id_bytes: out += vocab_list[b]" for the ids lo..hi-1
RECURSIVE ConcatTokens(_, _, _, _)
ConcatTokens(id_bytes, vocab_list, lo, hi) ==
    IF hi <= lo THEN <<>>
    ELSE IF hi = lo + 1 THEN vocab_list[id_bytes[lo + 1] + 1]
    ELSE LET mid == (lo + hi) \div 2
         IN  ConcatTokens(id_bytes, vocab_list, lo, mid)
             \o ConcatTokens(id_bytes, vocab_list, mid, hi)

\* decompress_bytes_v3 and decompress_bytes_v4: the two bodies differ in the
\* version they ask for alone
DecompressTokens(c, ver) ==
    LET min_header_base == 3 + 1 + 8 + 2
    IN  IF Len(c) < min_header_base THEN Raised("ValueError: too short")
        ELSE IF Slice(c, 0, 3) # MAGIC THEN Raised("ValueError: magic")
        ELSE IF c[3 + 1] # ver THEN Raised("ValueError: version")
        ELSE LET N_tokens   == FromBytes(Slice(c, 4, 12))
                 vocab_size == FromBytes(Slice(c, 12, 14))
                 v == ParseVocabRun([idx |-> 14, vocab_list |-> <<>>, err |-> "none"],
                                    c, vocab_size)
                 idx == v.idx
             IN  IF v.err # "none" THEN Raised(v.err)
                 ELSE IF idx + 256 * 4 + 1 > Len(c) THEN Raised("ValueError: truncated")
                 ELSE LET fr        == ParseFreq(c, idx)
                          lastbits  == c[idx + 256 * 4 + 1]
                          bitstream == Slice(c, idx + 256 * 4 + 1, Len(c))
                          id_bytes  == huffman_decompress_core(fr, bitstream, N_tokens, lastbits)
                      IN  IF \E k \in 1..Len(id_bytes) : id_bytes[k] >= Len(v.vocab_list)
                          THEN Raised("IndexError")
                          ELSE Returned(ConcatTokens(id_bytes, v.vocab_list, 0, Len(id_bytes)),
                                        id_bytes)

decompress_bytes_v3(c) == DecompressTokens(c, VERSION_STEP3)

decompress_bytes_v4(c) == DecompressTokens(c, VERSION_STEP4)

-----------------------------------------------------------------------------
(* Inputs *)

\* every byte string over Alphabet of length 0..MaxLen
SmallInputs == UNION {[1..n -> Alphabet] : n \in 0..MaxLen}

\* consonants and vowels the engineered input's words are made of
WordCons == <<98, 99, 100, 102, 103, 104, 106, 107, 108, 109, 110,
              112, 113, 114, 115, 116, 118, 119, 120, 121, 122>>
WordVows == <<97, 101, 105, 111, 117, 65, 69, 73, 79, 85>>

\* an input whose tokenization (by either tokenizer) is k pairwise different
\* tokens, k <= 257: two-letter words consonant+vowel alternating with
\* one-byte separators 128, 129, ...
EngineeredInput(k) ==
    [p \in 1..(3 * (k \div 2) + 2 * (k % 2)) |->
        LET q == (p - 1) \div 3
            r == (p - 1) % 3
        IN  IF r = 0 THEN WordCons[(q \div 10) + 1]
            ELSE IF r = 1 THEN WordVows[(q % 10) + 1]
            ELSE 128 + q]

\* "ciao, mondo!"
CiaoMondo == <<99, 105, 97, 111, 44, 32, 109, 111, 110, 100, 111, 33>>

Inputs ==
    SmallInputs \cup {EngineeredInput(MaxVocab), EngineeredInput(MaxVocab + 1), CiaoMondo}

\* frequency tables with entries 0..MaxFreq on Alphabet and 0 elsewhere
FreqTables ==
    {[b \in Byte |-> IF b \in Alphabet THEN f[b] ELSE 0] : f \in [Alphabet -> 0..MaxFreq]}

-----------------------------------------------------------------------------
(* Spec: one compress call, the container's transport, one decompress call *)

Builders == {1, 2}

NoResult == [status |-> "none", out |-> <<>>, decoded |-> <<>>]

NoCodec == [enc |-> "none", bitstream |-> <<>>, lastbits |-> 0, touched |-> "no",
            dec |-> "none", N |-> 0, out |-> <<>>]

BuildIdle ==
    /\ freq0 = <<>>
    /\ bfreq = [b \in Builders |-> <<>>]
    /\ bpc = [b \in Builders |-> "idle"]
    /\ bheap = [b \in Builders |-> {}]
    /\ bcounter = [b \in Builders |-> 0]
    /\ broot = [b \in Builders |-> NoTree]

Init ==
    /\ version \in {VERSION_STEP1, VERSION_STEP2, VERSION_STEP3, VERSION_STEP4}
    /\ data \in Inputs
    /\ pc = "start"
    /\ comp = <<>>
    /\ cerr = "none"
    /\ cut = 0
    /\ result = NoResult
    /\ decoder = 0
    /\ codec = NoCodec
    /\ BuildIdle

\* the caller's "comp = compress_bytes_vK(data)"
CompressCall(ver, r) ==
    /\ pc = "start"
    /\ version = ver
    /\ IF r.err = "none"
       THEN pc' = "compressed" /\ comp' = r.out /\ cerr' = cerr
       ELSE pc' = "failed" /\ comp' = comp /\ cerr' = r.err
    /\ UNCHANGED <<version, data, cut, result, decoder, codec>>
    /\ UNCHANGED bvars

CompressV1 == CompressCall(VERSION_STEP1, compress_bytes_v1(data))
CompressV2 == CompressCall(VERSION_STEP2, compress_bytes_v2(data))
CompressV3 == CompressCall(VERSION_STEP3, compress_bytes_v3(data))
CompressV4 == CompressCall(VERSION_STEP4, compress_bytes_v4(data))

\* the container loses its last byte before it is read back (an interrupted
\* write or copy of the file)
Truncate ==
    /\ pc = "compressed"
    /\ cut < MaxCut
    /\ Len(comp) > 0
    /\ comp' = SubSeq(comp, 1, Len(comp) - 1)
    /\ cut' = cut + 1
    /\ UNCHANGED <<version, data, pc, cerr, result, decoder, codec>>
    /\ UNCHANGED bvars

\* "data = decompress_bytes_vK(comp)" for the K = ver of the mode asked for
DecompressAs(ver, r) ==
    /\ pc = "compressed"
    /\ result' = r
    /\ decoder' = ver
    /\ pc' = "done"
    /\ UNCHANGED <<version, data, comp, cerr, cut, codec>>
    /\ UNCHANGED bvars

\* the container is read back in the mode it was written in
DecompressCall(ver, r) ==
    /\ version = ver
    /\ DecompressAs(ver, r)

DecompressV1 == DecompressCall(VERSION_STEP1, decompress_bytes_v1(comp))
DecompressV2 == DecompressCall(VERSION_STEP2, decompress_bytes_v2(comp))
DecompressV3 == DecompressCall(VERSION_STEP3, decompress_bytes_v3(comp))
DecompressV4 == DecompressCall(VERSION_STEP4, decompress_bytes_v4(comp))

Next ==
    \/ CompressV1
    \/ CompressV2
    \/ CompressV3
    \/ CompressV4
    \/ Truncate
    \/ DecompressV1
    \/ DecompressV2
    \/ DecompressV3
    \/ DecompressV4

Spec == Init /\ [][Next]_vars

-----------------------------------------------------------------------------
(* SpecCodec: encode_data applied to a symbol stream and its code table, the *)
(* bitstream as stored (its lastbits or padding bits possibly altered), and  *)
(* a decoding loop applied to it for some N                                  *)

\* longest enumerated stream of SpecCodec
MaxCodecLen == 2

\* how far beyond len(data) the N handed to the decoder goes
MaxExtra == 2

\* byte strings over ' ', 'a', 'b' up to MaxCodecLen; streams whose codes add
\* up to 8, 9, 8 and 16 bits; "ciao, mondo!"
CodecInputs ==
    UNION {[1..n -> {32, 97, 98}] : n \in 0..MaxCodecLen}
        \cup {Repeat(97, 8), Repeat(97, 9), <<32, 69, 97, 98>>,
              <<32, 69, 97, 98, 98, 97, 69, 32>>, CiaoMondo}

\* root = build_huffman_tree(build_freq_table(d))
TreeOf(d) == build_huffman_tree(build_freq_table(d))

\* codes = build_code_table(root); no table when there is no tree
CodesOf(d) == IF TreeOf(d) = NoTree THEN NoCodes ELSE build_code_table(TreeOf(d))

InitCodec ==
    /\ version = 0
    /\ data \in CodecInputs
    /\ pc = "start"
    /\ comp = <<>>
    /\ cerr = "none"
    /\ cut = 0
    /\ result = NoResult
    /\ decoder = 0
    /\ codec = NoCodec
    /\ BuildIdle

Encoded(enc, r) ==
    /\ pc = "start"
    /\ codec' = [codec EXCEPT !.enc = enc, !.bitstream = r[1], !.lastbits = r[2]]
    /\ pc' = "encoded"
    /\ UNCHANGED <<version, data, comp, cerr, cut, result, decoder>>
    /\ UNCHANGED bvars

\* "bitstream, lastbits = encode_data(data, codes)"
EncodeData == Encoded("unified", encode_data(data, CodesOf(data)))

\* the same call in gcc_huffman_step1.py
EncodeDataStep1 == Encoded("step1", encode_data_step1(data, CodesOf(data)))

\* the stored LASTBITS byte is not the one written
SetLastbits(l) ==
    /\ pc = "encoded"
    /\ codec.touched = "no"
    /\ codec.bitstream # <<>>
    /\ l # codec.lastbits
    /\ codec' = [codec EXCEPT !.lastbits = l, !.touched = "lastbits"]
    /\ UNCHANGED <<version, data, pc, comp, cerr, cut, result, decoder>>
    /\ UNCHANGED bvars

\* the low 8 - lastbits bits of the final byte are set to p
Repad(p) ==
    /\ pc = "encoded"
    /\ codec.touched # "padding"
    /\ codec.bitstream # <<>>
    /\ codec.lastbits \in 1..7
    /\ LET n    == Len(codec.bitstream)
           unit == Pow2(8 - codec.lastbits)
           last == (codec.bitstream[n] \div unit) * unit + (p % unit)
       IN  /\ last # codec.bitstream[n]
           /\ codec' = [codec EXCEPT !.bitstream[n] = last, !.touched = "padding"]
    /\ UNCHANGED <<version, data, pc, comp, cerr, cut, result, decoder>>
    /\ UNCHANGED bvars

Decoded(dec, N, out) ==
    /\ pc = "encoded"
    /\ codec' = [codec EXCEPT !.dec = dec, !.N = N, !.out = out]
    /\ pc' = "decoded"
    /\ UNCHANGED <<version, data, comp, cerr, cut, result, decoder>>
    /\ UNCHANGED bvars

\* "decode_bitstream(root, bitstream, N, lastbits)"
DecodeBitstream(N) ==
    Decoded("unified", N, decode_bitstream(TreeOf(data), codec.bitstream, N, codec.lastbits))

\* the decoding loop of gcc_huffman_step1.py
DecodeStep1(N) ==
    Decoded("step1", N, decode_step1(TreeOf(data), codec.bitstream, N, codec.lastbits))

NextCodec ==
    \/ EncodeData
    \/ EncodeDataStep1
    \/ \E l \in 1..8 : SetLastbits(l)
    \/ \E p \in {1, 127} : Repad(p)
    \/ \E N \in 0..(Len(data) + MaxExtra) : DecodeBitstream(N)
    \/ \E N \in 0..(Len(data) + MaxExtra) : DecodeStep1(N)

SpecCodec == InitCodec /\ [][NextCodec]_vars

-----------------------------------------------------------------------------
(* SpecHeader: a container whose header may have one byte overwritten is     *)
(* read back in any of the four modes                                        *)

HeaderInputs == {<<>>, <<97>>, <<98, 97, 32>>, CiaoMondo}

\* values a header byte is overwritten with: 0, 5, 'C', 'G', 'g', 0xFF (none
\* of them a format number: a buffer whose header names a format other than
\* its body's is made by reading a container in another mode)
HeaderBytes == {0, 5, 67, 71, 103, 255}

InitHeader ==
    /\ version \in {VERSION_STEP1, VERSION_STEP2, VERSION_STEP3, VERSION_STEP4}
    /\ data \in HeaderInputs
    /\ pc = "start"
    /\ comp = <<>>
    /\ cerr = "none"
    /\ cut = 0
    /\ result = NoResult
    /\ decoder = 0
    /\ codec = NoCodec
    /\ BuildIdle

\* the file as found: byte i of the header (0..3) is not what was written
Corrupt(i, v) ==
    /\ pc = "compressed"
    /\ Slice(comp, 0, 4) = MAGIC \o <<version>>
    /\ comp[i + 1] # v
    /\ comp' = [comp EXCEPT ![i + 1] = v]
    /\ UNCHANGED <<version, data, pc, cerr, cut, result, decoder, codec>>
    /\ UNCHANGED bvars

DecodeAsV1 == DecompressAs(VERSION_STEP1, decompress_bytes_v1(comp))
DecodeAsV2 == DecompressAs(VERSION_STEP2, decompress_bytes_v2(comp))
DecodeAsV3 == DecompressAs(VERSION_STEP3, decompress_bytes_v3(comp))
DecodeAsV4 == DecompressAs(VERSION_STEP4, decompress_bytes_v4(comp))

NextHeader ==
    \/ CompressV1
    \/ CompressV2
    \/ CompressV3
    \/ CompressV4
    \/ \E i \in 0..3 : \E v \in HeaderBytes : Corrupt(i, v)
    \/ DecodeAsV1
    \/ DecodeAsV2
    \/ DecodeAsV3
    \/ DecodeAsV4

SpecHeader == InitHeader /\ [][NextHeader]_vars

-----------------------------------------------------------------------------
(* SpecBuild: two executions of build_huffman_tree on one frequency table,  *)
(* their steps interleaved; a pop takes any entry heapq may return          *)

PipelineIdle ==
    /\ version = 0
    /\ data = <<>>
    /\ pc = "idle"
    /\ comp = <<>>
    /\ cerr = "none"
    /\ cut = 0
    /\ result = NoResult
    /\ decoder = 0
    /\ codec = NoCodec

InitBuild ==
    /\ PipelineIdle
    /\ freq0 \in FreqTables
    /\ bfreq = [b \in Builders |-> freq0]
    /\ bpc = [b \in Builders |-> "start"]
    /\ bheap = [b \in Builders |-> {}]
    /\ bcounter = [b \in Builders |-> 0]
    /\ broot = [b \in Builders |-> NoTree]

BuildState(b) == [heap |-> bheap[b], counter |-> bcounter[b]]

\* SetBuildState as it would be if heap and counter were module-level objects
\* that all calls share
SetBuildStateShared(b, st) ==
    /\ bheap' = [x \in Builders |-> st.heap]
    /\ bcounter' = [x \in Builders |-> st.counter]

SetBuildState(b, st) ==
    /\ bheap' = [bheap EXCEPT ![b] = st.heap]
    /\ bcounter' = [bcounter EXCEPT ![b] = st.counter]

\* the leaf loop and "if not heap: return None"
BuildLeaves(b) ==
    /\ bpc[b] = "start"
    /\ LET st == PushLeaves(bfreq[b])
       IN  /\ SetBuildState(b, st)
           /\ bpc' = [bpc EXCEPT ![b] = IF st.heap = {} THEN "done" ELSE "dummy"]
    /\ UNCHANGED <<freq0, bfreq, broot>>
    /\ UNCHANGED pvars

\* "if len(heap) == 1: ..."
BuildDummy(b) ==
    /\ bpc[b] = "dummy"
    /\ SetBuildState(b, AddDummy(BuildState(b)))
    /\ bpc' = [bpc EXCEPT ![b] = "merge"]
    /\ UNCHANGED <<freq0, bfreq, broot>>
    /\ UNCHANGED pvars

\* one iteration of "while len(heap) > 1"
BuildMerge(b) ==
    /\ bpc[b] = "merge"
    /\ Cardinality(bheap[b]) > 1
    /\ \E e1 \in HeapMinima(bheap[b]) :
         \E e2 \in HeapMinima(bheap[b] \ {e1}) :
           SetBuildState(b, Merge(BuildState(b), e1, e2))
    /\ UNCHANGED <<freq0, bfreq, bpc, broot>>
    /\ UNCHANGED pvars

\* "return heap[0][2]"
BuildReturn(b) ==
    /\ bpc[b] = "merge"
    /\ Cardinality(bheap[b]) <= 1
    /\ broot' = [broot EXCEPT ![b] = HeapRoot(BuildState(b))]
    /\ bpc' = [bpc EXCEPT ![b] = "done"]
    /\ UNCHANGED <<freq0, bfreq, bheap, bcounter>>
    /\ UNCHANGED pvars

NextBuild ==
    \E b \in Builders :
        \/ BuildLeaves(b)
        \/ BuildDummy(b)
        \/ BuildMerge(b)
        \/ BuildReturn(b)

SpecBuild == InitBuild /\ [][NextBuild]_vars

-----------------------------------------------------------------------------
(* SpecCalls: two calls of build_huffman_tree on independent inputs, their   *)
(* steps interleaved                                                         *)

\* longest stream a call of SpecCalls is made for
MaxCallLen == 2

\* the streams the two calls are made for: byte strings over ' ', 'a', 'b'
CallInputs == UNION {[1..n -> {32, 97, 98}] : n \in 0..MaxCallLen}

CallTables == {build_freq_table(d) : d \in CallInputs}

InitCalls ==
    /\ PipelineIdle
    /\ freq0 = <<>>
    /\ bfreq \in [Builders -> CallTables]
    /\ bpc = [b \in Builders |-> "start"]
    /\ bheap = [b \in Builders |-> {}]
    /\ bcounter = [b \in Builders |-> 0]
    /\ broot = [b \in Builders |-> NoTree]

SpecCalls == InitCalls /\ [][NextBuild]_vars

-----------------------------------------------------------------------------
(* SpecStep1: one input, compressed by gcc_huffman_step1.py or by the        *)
(* unified program's format 1, the container then read by either program;   *)
(* codec.enc and codec.dec record which program wrote and which read         *)

InitStep1 ==
    /\ version = VERSION_STEP1
    /\ data \in Inputs \cup CodecInputs
    /\ pc = "start"
    /\ comp = <<>>
    /\ cerr = "none"
    /\ cut = 0
    /\ result = NoResult
    /\ decoder = 0
    /\ codec = NoCodec
    /\ BuildIdle

WrittenBy(prog, r) ==
    /\ pc = "start"
    /\ r.err = "none"
    /\ comp' = r.out
    /\ codec' = [codec EXCEPT !.enc = prog]
    /\ pc' = "compressed"
    /\ UNCHANGED <<version, data, cerr, cut, result, decoder>>
    /\ UNCHANGED bvars

\* "comp = compress_bytes(data)" of gcc_huffman_step1.py's compress_file
Step1Compress == WrittenBy("step1", compress_bytes(data))

\* "comp = compress_bytes_v1(data)" of gcc_huffman.py's compress_file_v1
UnifiedCompress == WrittenBy("unified", compress_bytes_v1(data))

ReadBy(prog, r) ==
    /\ pc = "compressed"
    /\ result' = r
    /\ decoder' = VERSION_STEP1
    /\ codec' = [codec EXCEPT !.dec = prog]
    /\ pc' = "done"
    /\ UNCHANGED <<version, data, comp, cerr, cut>>
    /\ UNCHANGED bvars

\* "data = decompress_bytes(comp)" of gcc_huffman_step1.py's decompress_file
Step1Decompress == ReadBy("step1", decompress_bytes(comp))

\* "data = decompress_bytes_v1(comp)" of gcc_huffman.py's decompress_file_v1
UnifiedDecompress == ReadBy("unified", decompress_bytes_v1(comp))

NextStep1 ==
    \/ Step1Compress
    \/ UnifiedCompress
    \/ Step1Decompress
    \/ UnifiedDecompress

SpecStep1 == InitStep1 /\ [][NextStep1]_vars

-----------------------------------------------------------------------------
(* Reading a container's header fields back, for the properties below *)

\* the N field (bytes 4..11 of every format)
FieldN(c) == FromBytes(Slice(c, 4, 12))

\* where the primary stream's FREQ block starts: v1 after N, v2 after LEN_C,
\* v3/v4 after the vocabulary
PrimaryFreqOffset(c, ver) ==
    IF ver = VERSION_STEP1 THEN 12
    ELSE IF ver = VERSION_STEP2 THEN 28
    ELSE ParseVocabRun([idx |-> 14, vocab_list |-> <<>>, err |-> "none"],
                       c, FromBytes(Slice(c, 12, 14))).idx

\* the container's primary frequency table has a non-zero entry
HasTree(c, ver) == \E b \in Byte : ParseFreq(c, PrimaryFreqOffset(c, ver))[b] > 0

\* the tokens of d under format ver's tokenizer
TokensOf(d, ver) ==
    IF ver = VERSION_STEP3 THEN tokenize_syllables_and_other(d)
    ELSE tokenize_words_and_other(d)

DistinctTokens(d, ver) == Cardinality(Range(TokensOf(d, ver)))

IsPrefix(a, b) == Len(a) <= Len(b) /\ SubSeq(b, 1, Len(a)) = a

Count(s, P(_)) == Cardinality({i \in DOMAIN s : P(s[i])})

\* the symbols with a non-zero entry in fr
Support(fr) == {b \in Byte : fr[b] > 0}

-----------------------------------------------------------------------------
(* Properties *)

\* C1: format 1 round trip: for every byte sequence x (the empty one, one
\* byte, one repeated byte included), decompress_bytes_v1 applied to the
\* unaltered container compress_bytes_v1(x) returns exactly x.
C1_RoundTripV1 ==
    (version = VERSION_STEP1 /\ pc = "done" /\ cut = 0)
        => (result.status = "ok" /\ result.out = data)

C1_Witness ==
    /\ version = VERSION_STEP1 /\ pc = "done" /\ cut = 0
    /\ data = <<97, 98, 32>>
    /\ result.out = data

\* C2: format 2 round trip: for every byte sequence x, decompress_bytes_v2
\* applied to the unaltered container compress_bytes_v2(x) returns exactly x:
\* the three streams are decoded and re-interleaved by the mask.
C2_RoundTripV2 ==
    (version = VERSION_STEP2 /\ pc = "done" /\ cut = 0)
        => (result.status = "ok" /\ result.out = data)

C2_Witness ==
    /\ version = VERSION_STEP2 /\ pc = "done" /\ cut = 0
    /\ data = <<98, 97, 32>>
    /\ result.out = data

\* C3: formats 3 and 4 round trip: an input whose tokenization has at most
\* MaxVocab distinct tokens is accepted by compress_bytes_v3 / _v4, and the
\* matching decompress applied to the unaltered container returns the input.
C3_RoundTripTokens ==
    (version \in {VERSION_STEP3, VERSION_STEP4} /\ DistinctTokens(data, version) <= MaxVocab)
        => /\ pc # "failed"
           /\ (pc = "done" /\ cut = 0) => (result.status = "ok" /\ result.out = data)

C3_Witness ==
    /\ version = VERSION_STEP3 /\ pc = "done" /\ cut = 0
    /\ data = <<98, 97, 69>>
    /\ result.out = data

\* C4: a decoder never returns, as a success, fewer symbols than the N its
\* container declares (N > 0, the frequency table not all zero): a bitstream
\* that ends early is an error.
C4_NoShortResult ==
    (pc = "done" /\ result.status = "ok" /\ FieldN(comp) > 0 /\ HasTree(comp, version))
        => Len(result.decoded) >= FieldN(comp)

\* C5: compressing the empty input gives, in every format, a container with
\* N = 0, all frequencies 0, LASTBITS 0 and no bitstream bytes (v2: LEN_V =
\* LEN_C = 0 and the three BITSTREAM_SIZE fields 0; v3/v4: VOCAB_SIZE = 0),
\* and decompressing it gives the empty sequence.
C5_EmptyInput ==
    (data = <<>> /\ pc # "start" /\ cut = 0)
        => /\ pc # "failed"
           /\ Slice(comp, 0, 4) = MAGIC \o <<version>>
           /\ FieldN(comp) = 0
           /\ version = VERSION_STEP1 =>
                comp = Slice(comp, 0, 12) \o Zeros(256 * 4) \o <<0>>
           /\ version = VERSION_STEP2 =>
                /\ Slice(comp, 12, 28) = Zeros(16)
                /\ LET stream == Zeros(256 * 4) \o <<0>> \o Zeros(8)
                   IN  comp = Slice(comp, 0, 28) \o stream \o stream \o stream
           /\ version \in {VERSION_STEP3, VERSION_STEP4} =>
                /\ Slice(comp, 12, 14) = Zeros(2)
                /\ comp = Slice(comp, 0, 14) \o Zeros(256 * 4) \o <<0>>
           /\ pc = "done" => (result.status = "ok" /\ result.out = <<>>)

C5_Witness ==
    /\ data = <<>> /\ pc = "done" /\ cut = 0 /\ version = VERSION_STEP2
    /\ Len(comp) = 28 + 3 * (256 * 4 + 1 + 8)
    /\ result.out = <<>>

\* most copies of the one symbol the single-symbol stream of C6 is made of
MaxCopies == 9

\* C6: a frequency table with exactly one non-zero entry (symbol s) gives a
\* tree whose root is an internal node with exactly two leaves, s with its
\* weight and a dummy of weight 0 and symbol (s + 1) mod 256; s gets a code
\* of one bit, and n >= 1 copies of s are encoded and decoded back.
C6_SingleSymbol ==
    \A b \in Builders :
        (bpc[b] = "done" /\ Cardinality(Support(freq0)) = 1) =>
            LET s     == CHOOSE x \in Byte : freq0[x] > 0
                root  == broot[b]
                codes == build_code_table(root)
            IN  /\ root # NoTree
                /\ ~IsLeaf(root)
                /\ root.symbol = None
                /\ {root.left, root.right} =
                       {HuffmanNode(freq0[s], s, Nil, Nil),
                        HuffmanNode(0, (s + 1) % 256, Nil, Nil)}
                /\ (s + 1) % 256 \in Byte
                /\ Len(codes[s]) = 1
                /\ \A n \in 1..MaxCopies :
                       LET enc == encode_data(Repeat(s, n), codes)
                       IN  decode_bitstream(root, enc[1], n, enc[2]) = Repeat(s, n)

C6_Witness ==
    /\ bpc[1] = "done"
    /\ Support(freq0) = {255}
    /\ broot[1] # NoTree
    /\ broot[1].left.symbol = 0
    /\ broot[1].right.symbol = 255

\* C7: tree construction is deterministic: every execution of
\* build_huffman_tree on a frequency table f, whatever else runs in between
\* and whichever smallest entry a pop returns, ends with the same tree, and
\* so with the same code table.
C7_Deterministic ==
    /\ \A b \in Builders : bpc[b] = "done" => broot[b] = build_huffman_tree(freq0)
    /\ (bpc[1] = "done" /\ bpc[2] = "done") =>
          /\ broot[1] = broot[2]
          /\ broot[1] # NoTree => build_code_table(broot[1]) = build_code_table(broot[2])

C7_Witness ==
    /\ bpc[1] = "done" /\ bpc[2] = "done"
    /\ freq0[32] = 1 /\ freq0[69] = 1 /\ freq0[97] = 1 /\ freq0[98] = 1
    /\ broot[1] # NoTree
    /\ broot[1] = broot[2]

\* C8: for a frequency table with a non-zero entry, the code table gives
\* every symbol of the table a non-empty code, and no symbol's code is a
\* prefix of (or equal to) another symbol's code.
C8_PrefixFree ==
    \A b \in Builders :
        (bpc[b] = "done" /\ Support(freq0) # {}) =>
            LET codes == build_code_table(broot[b])
            IN  /\ Support(freq0) \subseteq DOMAIN codes
                /\ \A x \in DOMAIN codes : Len(codes[x]) >= 1
                /\ \A x, y \in DOMAIN codes : x # y => ~IsPrefix(codes[x], codes[y])

C8_Witness ==
    /\ bpc[1] = "done"
    /\ Cardinality(Support(freq0)) = 3
    /\ Cardinality(DOMAIN build_code_table(broot[1])) = 3

IsMaskV(m) == m = MaskV
IsNotMaskV(m) == m # MaskV

\* C9: split_streams_v2(x) returns a mask as long as x and vowel and cons
\* streams whose lengths add up to len(x); the mask has one 'V' per vowel-stream
\* byte and one other symbol per cons-stream byte; the header fields of
\* compress_bytes_v2(x) satisfy N = LEN_V + LEN_C.
C9_Interleave ==
    (version = VERSION_STEP2 /\ pc # "start" /\ cut = 0) =>
        LET s == split_streams_v2(data)
        IN  /\ Len(s.mask) = Len(data)
            /\ Len(s.vowels) + Len(s.cons) = Len(data)
            /\ Count(s.mask, IsMaskV) = Len(s.vowels)
            /\ Count(s.mask, IsNotMaskV) = Len(s.cons)
            /\ pc # "failed"
            /\ FieldN(comp) = Len(data)
            /\ FromBytes(Slice(comp, 12, 20)) = Len(s.vowels)
            /\ FromBytes(Slice(comp, 20, 28)) = Len(s.cons)
            /\ FieldN(comp) = FromBytes(Slice(comp, 12, 20)) + FromBytes(Slice(comp, 20, 28))

C9_Witness ==
    /\ version = VERSION_STEP2 /\ pc = "compressed" /\ cut = 0
    /\ data = <<97, 32, 255>>
    /\ FieldN(comp) = 3
    /\ FromBytes(Slice(comp, 12, 20)) = 1
    /\ FromBytes(Slice(comp, 20, 28)) = 2

\* C10: compress_bytes_v3 / _v4 raise the vocabulary error and return no
\* container for an input with MaxVocab + 1 or more distinct tokens, and
\* succeed, with a container that round-trips, for exactly MaxVocab.
C10_VocabBound ==
    (version \in {VERSION_STEP3, VERSION_STEP4} /\ pc # "start") =>
        /\ DistinctTokens(data, version) > MaxVocab =>
              (pc = "failed" /\ cerr = "ValueError: vocab" /\ comp = <<>>)
        /\ DistinctTokens(data, version) = MaxVocab =>
              /\ pc # "failed"
              /\ cerr = "none"
              /\ (pc = "done" /\ cut = 0) => (result.status = "ok" /\ result.out = data)

C10_Witness ==
    /\ version = VERSION_STEP4
    /\ DistinctTokens(data, version) = MaxVocab + 1
    /\ pc = "failed"
    /\ cerr = "ValueError: vocab"

\* the concatenation of tokens[lo + 1 .. hi]
RECURSIVE Joined(_, _, _)
Joined(tokens, lo, hi) ==
    IF hi <= lo THEN <<>>
    ELSE IF hi = lo + 1 THEN tokens[hi]
    ELSE LET mid == (lo + hi) \div 2
         IN  Joined(tokens, lo, mid) \o Joined(tokens, mid, hi)

\* A-Z, a-z
IsLetter(b) == b \in (65..90) \cup (97..122)
\* aeiouAEIOU
IsVowelLetter(b) == b \in {97, 101, 105, 111, 117, 65, 69, 73, 79, 85}

AllLetters(t) == \A k \in 1..Len(t) : IsLetter(t[k])
NoLetters(t) == \A k \in 1..Len(t) : ~IsLetter(t[k])

\* C11: format 4 tokenizer: tokenize_words_and_other(x) returns non-empty
\* tokens whose concatenation is x; every token is all ASCII letters or all
\* non-letters, and adjacent tokens are of different classes (each token is a
\* maximal run); "ciao, mondo!" gives "ciao" ", " "mondo" "!", and the empty
\* input gives no tokens.
C11_WordTokens ==
    (version = VERSION_STEP4 /\ pc # "start") =>
        LET t == tokenize_words_and_other(data)
        IN  /\ \A k \in 1..Len(t) : t[k] # <<>>
            /\ Joined(t, 0, Len(t)) = data
            /\ \A k \in 1..Len(t) : AllLetters(t[k]) \/ NoLetters(t[k])
            /\ \A k \in 1..(Len(t) - 1) : AllLetters(t[k]) # AllLetters(t[k + 1])
            /\ data = <<>> => t = <<>>
            /\ data = CiaoMondo =>
                  t = << <<99, 105, 97, 111>>, <<44, 32>>, <<109, 111, 110, 100, 111>>, <<33>> >>

C11_Witness ==
    /\ version = VERSION_STEP4 /\ pc = "compressed" /\ cut = 0
    /\ data = <<97, 98, 255>>
    /\ tokenize_words_and_other(data) = << <<97, 98>>, <<255>> >>

\* C12: format 3 tokenizer: tokenize_syllables_and_other(x) returns non-empty
\* tokens whose concatenation is x; a maximal run of non-letters is one token;
\* a maximal run of ASCII letters is split into syllables that hold no vowel
\* except possibly as their last byte, every syllable of the run but possibly
\* the last ending in a vowel; the word "ciao" gives "ci" "a" "o".
C12_SyllableTokens ==
    (version = VERSION_STEP3 /\ pc # "start") =>
        LET t == tokenize_syllables_and_other(data)
        IN  /\ \A k \in 1..Len(t) : t[k] # <<>>
            /\ Joined(t, 0, Len(t)) = data
            /\ \A k \in 1..Len(t) : AllLetters(t[k]) \/ NoLetters(t[k])
            /\ \A k \in 1..(Len(t) - 1) : NoLetters(t[k]) => AllLetters(t[k + 1])
            /\ \A k \in 1..Len(t) :
                  AllLetters(t[k]) => \A j \in 1..(Len(t[k]) - 1) : ~IsVowelLetter(t[k][j])
            /\ \A k \in 1..(Len(t) - 1) :
                  (AllLetters(t[k]) /\ AllLetters(t[k + 1])) => IsVowelLetter(t[k][Len(t[k])])
            /\ data = CiaoMondo =>
                  t = << <<99, 105>>, <<97>>, <<111>>, <<44, 32>>,
                         <<109, 111>>, <<110, 100, 111>>, <<33>> >>
            /\ split_word_into_syllables(<<99, 105, 97, 111>>)
                  = << <<99, 105>>, <<97>>, <<111>> >>

C12_Witness ==
    /\ version = VERSION_STEP3 /\ pc = "compressed" /\ cut = 0
    /\ data = <<98, 97, 98>>
    /\ tokenize_syllables_and_other(data) = << <<98, 97>>, <<98>> >>

\* the shortest buffer decompress_bytes_vK reads a magic and a version from
MinHeader(K) ==
    IF K = VERSION_STEP1 THEN 3 + 1 + 8 + 256 * 4 + 1
    ELSE IF K = VERSION_STEP2 THEN 3 + 1 + 8 + 8 + 8
    ELSE 3 + 1 + 8 + 2

\* what compress_bytes_vJ returns for d
ContainerOf(J, d) ==
    IF J = VERSION_STEP1 THEN compress_bytes_v1(d).out
    ELSE IF J = VERSION_STEP2 THEN compress_bytes_v2(d).out
    ELSE IF J = VERSION_STEP3 THEN compress_bytes_v3(d).out
    ELSE compress_bytes_v4(d).out

\* C13: header validation: on a buffer at least as long as decoder K's
\* minimum header, decompress_bytes_vK raises the magic error, with no output,
\* when the first three bytes are not "GCC", and otherwise the version error,
\* with no output, when the fourth byte is not K; so the container written by
\* compress_bytes_vJ is rejected by decompress_bytes_vK for every J # K.
C13_HeaderValidation ==
    (pc = "done" /\ Len(comp) >= MinHeader(decoder)) =>
        /\ Slice(comp, 0, 3) # MAGIC => result = Raised("ValueError: magic")
        /\ (Slice(comp, 0, 3) = MAGIC /\ comp[4] # decoder) =>
              result = Raised("ValueError: version")
        /\ (comp = ContainerOf(version, data) /\ version # decoder) =>
              (result.status = "ValueError: version" /\ result.out = <<>>)

C13_Witness ==
    /\ pc = "done"
    /\ version = VERSION_STEP3 /\ decoder = VERSION_STEP4
    /\ data = CiaoMondo
    /\ comp = ContainerOf(version, data)
    /\ result = Raised("ValueError: version")

\* the BITSTREAM_SIZE field of stream k (0: mask, 1: vowels, 2: cons) of a
\* format 2 header
FieldBSize(c, k) ==
    FromBytes(Slice(c, 28 + k * (256 * 4 + 1 + 8) + 256 * 4 + 1,
                       28 + (k + 1) * (256 * 4 + 1 + 8)))

\* the full three-stream header of format 2
FullHeaderV2 == 28 + 3 * (256 * 4 + 1 + 8)

\* buffer c is shorter than format ver's complete fixed header, or than what
\* its header declares
DeclaredTooShort(c, ver) ==
    IF ver = VERSION_STEP1 THEN Len(c) < 12 + 256 * 4 + 1
    ELSE IF ver = VERSION_STEP2
    THEN \/ Len(c) < FullHeaderV2
         \/ Len(c) < FullHeaderV2 + FieldBSize(c, 0) + FieldBSize(c, 1) + FieldBSize(c, 2)
    ELSE \/ Len(c) < 14
         \/ LET v == ParseVocabRun([idx |-> 14, vocab_list |-> <<>>, err |-> "none"],
                                   c, FromBytes(Slice(c, 12, 14)))
            IN  v.err # "none" \/ v.idx + 256 * 4 + 1 > Len(c)

\* C14: truncated containers are detected eagerly: a decoder handed a buffer
\* with valid magic and version that is shorter than its complete fixed
\* header, or than the sub-stream sizes (vocabulary entries, frequency table
\* and lastbits) its header declares, raises the error it raises for a
\* too-short header; format 2 does so for every buffer shorter than 3127
\* bytes or than 3127 + the three declared bitstream sizes.
C14_TruncatedEager ==
    (pc = "done" /\ Slice(comp, 0, 4) = MAGIC \o <<version>>
                /\ DeclaredTooShort(comp, version))
        => result.status \in {"ValueError: too short", "ValueError: truncated"}

\* where stream k's header block starts in a format 2 container
StreamOffset(k) == 28 + k * (256 * 4 + 1 + 8)

\* C15: format 2 layout: compress_bytes_v2(x) is "GCC", the version byte 2,
\* N, LEN_V, LEN_C (8 bytes each, big-endian), then for the mask, vowel and
\* cons-and-other streams in that order 256 big-endian uint32 frequencies, one
\* LASTBITS byte and an 8-byte BITSTREAM_SIZE equal to the length of that
\* stream's bitstream, then the three bitstreams in the same order; its
\* length is 3127 + the three BITSTREAM_SIZE values.
C15_LayoutV2 ==
    (version = VERSION_STEP2 /\ pc = "compressed" /\ cut = 0) =>
        LET s       == split_streams_v2(data)
            streams == <<s.mask, s.vowels, s.cons>>
            core    == [k \in 0..2 |-> huffman_compress_core(streams[k + 1])]
            b0      == FieldBSize(comp, 0)
            b1      == FieldBSize(comp, 1)
            b2      == FieldBSize(comp, 2)
        IN  /\ Slice(comp, 0, 3) = <<71, 67, 67>>
            /\ comp[4] = 2
            /\ Slice(comp, 4, 12) = ToBytes(Len(data), 8)
            /\ Slice(comp, 12, 20) = ToBytes(Len(s.vowels), 8)
            /\ Slice(comp, 20, 28) = ToBytes(Len(s.cons), 8)
            /\ \A k \in 0..2 :
                  /\ \A b \in Byte :
                        Slice(comp, StreamOffset(k) + 4 * b, StreamOffset(k) + 4 * b + 4)
                            = ToBytes(Count(streams[k + 1], LAMBDA x : x = b), 4)
                  /\ comp[StreamOffset(k) + 256 * 4 + 1] = core[k][2]
                  /\ FieldBSize(comp, k) = Len(core[k][3])
            /\ Slice(comp, FullHeaderV2, FullHeaderV2 + b0) = core[0][3]
            /\ Slice(comp, FullHeaderV2 + b0, FullHeaderV2 + b0 + b1) = core[1][3]
            /\ Slice(comp, FullHeaderV2 + b0 + b1, FullHeaderV2 + b0 + b1 + b2) = core[2][3]
            /\ FullHeaderV2 = 3127
            /\ Len(comp) = 3127 + b0 + b1 + b2

C15_Witness ==
    /\ version = VERSION_STEP2 /\ pc = "compressed" /\ cut = 0
    /\ data = <<98, 97, 32>>
    /\ FieldBSize(comp, 0) = 1 /\ FieldBSize(comp, 1) = 1 /\ FieldBSize(comp, 2) = 1
    /\ Len(comp) = 3130

\* C16: call independence: calls share no mutable state, so with the steps
\* of two calls on independent inputs interleaved in any order each call
\* returns what it returns when run alone; the tie-break counter is created
\* per call and starts from 0 in every build.
C16_CallIndependence ==
    \A b \in Builders :
        /\ bpc[b] = "done" => broot[b] = build_huffman_tree(bfreq[b])
        /\ bpc[b] = "dummy" =>
              /\ bcounter[b] = Cardinality(Support(bfreq[b]))
              /\ {e[2] : e \in bheap[b]} = 0..(bcounter[b] - 1)
        /\ \A e \in bheap[b] : e[2] < bcounter[b]
        /\ \A e \in bheap[b] : IsLeaf(e[3]) => bfreq[b][e[3].symbol] = e[1]

C16_Witness ==
    /\ bpc[1] = "done" /\ bpc[2] = "done"
    /\ Support(bfreq[1]) = {97, 98}
    /\ Support(bfreq[2]) = {32}
    /\ broot[1] # NoTree /\ broot[2] # NoTree
    /\ broot[1] # broot[2]

\* the 8 bits of a byte, most significant first
BitsOfByte(v) == [k \in 1..8 |-> (v \div Pow2(8 - k)) % 2]

\* the bits of bytes bs[lo + 1 .. hi], in order
RECURSIVE BitsOf(_, _, _)
BitsOf(bs, lo, hi) ==
    IF hi <= lo THEN <<>>
    ELSE IF hi = lo + 1 THEN BitsOfByte(bs[hi])
    ELSE LET mid == (lo + hi) \div 2
         IN  BitsOf(bs, lo, mid) \o BitsOf(bs, mid, hi)

\* the codes of symbols d[lo + 1 .. hi], concatenated
RECURSIVE CodeBits(_, _, _, _)
CodeBits(d, codes, lo, hi) ==
    IF hi <= lo THEN <<>>
    ELSE IF hi = lo + 1 THEN codes[d[hi]]
    ELSE LET mid == (lo + hi) \div 2
         IN  CodeBits(d, codes, lo, mid) \o CodeBits(d, codes, mid, hi)

\* what the claim says of (bitstream, lastbits) for stream d
EncodeShape(d, bitstream, lastbits) ==
    LET bits == CodeBits(d, CodesOf(d), 0, Len(d))
        T    == Len(bits)
    IN  /\ Len(bitstream) = (T + 7) \div 8
        /\ lastbits = 0 <=> d = <<>>
        /\ d # <<>> => lastbits = (IF T % 8 = 0 THEN 8 ELSE T % 8)
        /\ BitsOf(bitstream, 0, Len(bitstream)) = bits \o Zeros(8 * Len(bitstream) - T)

\* C17: bit packer output shape: with T the sum of the code lengths of the
\* symbols of d, encode_data returns ceil(T / 8) bytes; lastbits is 0 if and
\* only if d is empty, 8 when T is a positive multiple of 8 and T mod 8
\* otherwise; the bits are the codes in order, most significant bit first,
\* and the unused low bits of the final byte are zero.
C17_EncodeShape ==
    (pc = "encoded" /\ codec.touched = "no") =>
        EncodeShape(data, codec.bitstream, codec.lastbits)

\* the same for encode_data of gcc_huffman.py alone
C17_EncodeShapeUnified ==
    (pc = "encoded" /\ codec.touched = "no" /\ codec.enc = "unified") =>
        EncodeShape(data, codec.bitstream, codec.lastbits)

\* C18: decode_bitstream returns at most N symbols and returns as soon as
\* the N-th is emitted: for the bitstream that encodes d and N <= len(d) the
\* result is the first N symbols of d; for N = 0, or when there is no tree,
\* the result is empty.
C18_StopsAtN ==
    (pc = "decoded" /\ codec.dec = "unified") =>
        /\ Len(codec.out) <= codec.N
        /\ (codec.touched = "no" /\ codec.N <= Len(data)) =>
              codec.out = SubSeq(data, 1, codec.N)
        /\ (codec.N = 0 \/ TreeOf(data) = NoTree) => codec.out = <<>>

C18_Witness ==
    /\ pc = "decoded" /\ codec.dec = "unified" /\ codec.touched = "no"
    /\ data = CiaoMondo
    /\ codec.N = 5
    /\ Len(codec.bitstream) > 3
    /\ codec.out = <<99, 105, 97, 111, 44>>

\* bitstream bs with the low 8 - lastbits bits of its final byte set to pad
WithPadding(bs, lastbits, pad) ==
    LET unit == Pow2(8 - lastbits)
    IN  [bs EXCEPT ![Len(bs)] = (@ \div unit) * unit + (pad % unit)]

\* the decoding loop that produced codec.out
DecodeWith(dec, root, bitstream, N, lastbits) ==
    IF dec = "unified" THEN decode_bitstream(root, bitstream, N, lastbits)
    ELSE decode_step1(root, bitstream, N, lastbits)

\* C19: padding bits are ignored: for lastbits in 1..8, bitstreams of equal
\* length that differ only in the low 8 - lastbits bits of the final byte are
\* decoded to the same output; only the first lastbits bits of the final byte
\* are consumed.
C19_PaddingIgnored ==
    (pc = "decoded" /\ codec.bitstream # <<>> /\ codec.lastbits \in 1..8) =>
        /\ \A pad \in {0, 85, 255} :
              codec.out = DecodeWith(codec.dec, TreeOf(data),
                                     WithPadding(codec.bitstream, codec.lastbits, pad),
                                     codec.N, codec.lastbits)
        /\ Len(codec.out) <= 8 * (Len(codec.bitstream) - 1) + codec.lastbits

C19_Witness ==
    /\ pc = "decoded" /\ codec.dec = "unified" /\ codec.touched = "padding"
    /\ data = <<97, 98>>
    /\ codec.lastbits = 2
    /\ codec.bitstream[1] % 64 = 63
    /\ codec.N = 4
    /\ codec.out = data

\* the leaves of a tree, left to right
RECURSIVE LeavesOf(_)
LeavesOf(node) ==
    IF node.left = Nil /\ node.right = Nil THEN <<node>>
    ELSE (IF node.left # Nil THEN LeavesOf(node.left) ELSE <<>>)
         \o (IF node.right # Nil THEN LeavesOf(node.right) ELSE <<>>)

\* how many nodes a tree has
RECURSIVE NodeCount(_)
NodeCount(node) ==
    1 + (IF node.left # Nil THEN NodeCount(node.left) ELSE 0)
      + (IF node.right # Nil THEN NodeCount(node.right) ELSE 0)

\* every node is a leaf with a symbol or an internal node with no symbol, two
\* children and the sum of their weights
RECURSIVE ProperTree(_)
ProperTree(node) ==
    \/ /\ node.left = Nil /\ node.right = Nil
       /\ node.symbol \in Byte
    \/ /\ node.left # Nil /\ node.right # Nil
       /\ node.symbol = None
       /\ node.freq = node.left.freq + node.right.freq
       /\ ProperTree(node.left)
       /\ ProperTree(node.right)

\* fr[lo] + ... + fr[hi - 1]
RECURSIVE SumFreq(_, _, _)
SumFreq(fr, lo, hi) ==
    IF hi <= lo THEN 0
    ELSE IF hi = lo + 1 THEN fr[lo]
    ELSE LET mid == (lo + hi) \div 2
         IN  SumFreq(fr, lo, mid) + SumFreq(fr, mid, hi)

\* a stream whose frequency table is fr: the symbols in ascending order, each
\* fr[b] times
RECURSIVE StreamOf(_, _, _)
StreamOf(fr, lo, hi) ==
    IF hi <= lo THEN <<>>
    ELSE IF hi = lo + 1 THEN Repeat(lo, fr[lo])
    ELSE LET mid == (lo + hi) \div 2
         IN  StreamOf(fr, lo, mid) \o StreamOf(fr, mid, hi)

Reversed(s) == [i \in 1..Len(s) |-> s[Len(s) + 1 - i]]

\* C20: tree shape and weights: for a stream d with frequency table f (f[b]
\* the occurrences of b, the entries adding up to len(d)) and d not empty,
\* build_huffman_tree(f) is a proper binary tree: the root is internal, every
\* internal node has two children and the sum of their weights, no node has
\* two parents, each symbol of non-zero frequency is exactly one leaf of
\* weight f[symbol], and the root's weight is len(d).
C20_TreeShape ==
    \A b \in Builders :
        (bpc[b] = "done" /\ Support(freq0) # {}) =>
            LET root   == broot[b]
                d      == StreamOf(freq0, 0, 256)
                leaves == LeavesOf(root)
            IN  /\ build_freq_table(d) = freq0
                /\ build_freq_table(Reversed(d)) = freq0
                /\ \A x \in Byte : freq0[x] = Count(d, LAMBDA y : y = x)
                /\ SumFreq(freq0, 0, 256) = Len(d)
                /\ root # NoTree
                /\ ~IsLeaf(root)
                /\ ProperTree(root)
                /\ \A i, j \in 1..Len(leaves) : leaves[i].symbol = leaves[j].symbol => i = j
                /\ NodeCount(root) = 2 * Len(leaves) - 1
                /\ NodeCount(root) = bcounter[b]
                /\ \A x \in Support(freq0) :
                      \E i \in 1..Len(leaves) :
                          leaves[i].symbol = x /\ leaves[i].freq = freq0[x]
                /\ \A i \in 1..Len(leaves) :
                      leaves[i].symbol \in Support(freq0) \/ leaves[i].freq = 0
                /\ root.freq = Len(d)

C20_Witness ==
    /\ bpc[1] = "done"
    /\ freq0[32] = 2 /\ freq0[69] = 0 /\ freq0[97] = 1 /\ freq0[98] = 2 /\ freq0[255] = 1
    /\ broot[1].freq = 6
    /\ Len(LeavesOf(broot[1])) = 4

\* (weight, sequence number) of a is not above that of b, lexicographically
LexLeq(a, b) == a[1] < b[1] \/ (a[1] = b[1] /\ a[2] <= b[2])

\* one leaf per symbol of non-zero frequency, numbered 0, 1, 2, ... in
\* ascending symbol order
RankedLeaves(fr) ==
    {<<fr[s], Cardinality({t \in Support(fr) : t < s}), HuffmanNode(fr[s], s, Nil, Nil)>> :
        s \in Support(fr)}

\* C21: merge order and tie-break: the leaf loop of build_huffman_tree leaves
\* one pending leaf per symbol, numbered 0, 1, 2, ... in ascending symbol
\* order; every merge step removes the two pending nodes that are smallest
\* under the lexicographic order (weight, sequence number), makes the first
\* the left and the second the right child of a new internal node, and
\* re-inserts it with a number above every number assigned before; the loop
\* is left only when exactly one node is pending, and that node is returned.
C21_MergeOrder ==
    [][\A b \in Builders :
         /\ (bpc[b] = "start" /\ bpc'[b] # "start") =>
               /\ bheap'[b] = RankedLeaves(bfreq[b])
               /\ bcounter'[b] = Cardinality(Support(bfreq[b]))
         /\ (bpc[b] = "merge" /\ bheap'[b] # bheap[b]) =>
               LET removed == bheap[b] \ bheap'[b]
                   added   == bheap'[b] \ bheap[b]
               IN  /\ Cardinality(bheap[b]) > 1
                   /\ Cardinality(removed) = 2
                   /\ Cardinality(added) = 1
                   /\ bpc'[b] = "merge"
                   /\ \E e1 \in removed : \E e2 \in removed \ {e1} : \E n \in added :
                        /\ \A o \in bheap[b] : LexLeq(e1, o)
                        /\ \A o \in bheap[b] \ {e1} : LexLeq(e2, o)
                        /\ n[3].symbol = None
                        /\ n[3].left = e1[3]
                        /\ n[3].right = e2[3]
                        /\ \A o \in bheap[b] : o[2] < n[2]
                        /\ bcounter[b] <= n[2]
                        /\ n[2] < bcounter'[b]
         /\ (bpc[b] = "merge" /\ bpc'[b] # "merge") =>
               /\ Cardinality(bheap[b]) = 1
               /\ bpc'[b] = "done"
               /\ \E e \in bheap[b] : broot'[b] = e[3]
      ]_vars

C21_Witness ==
    /\ bpc[1] = "merge"
    /\ Support(freq0) = {32, 97, 98}
    /\ bcounter[1] = 4
    /\ bheap[1] =
          {<<1, 2, HuffmanNode(1, 98, Nil, Nil)>>,
           <<2, 3, HuffmanNode(2, None, HuffmanNode(1, 32, Nil, Nil),
                                        HuffmanNode(1, 97, Nil, Nil))>>}


\* one of the ten bytes a, e, i, o, u, A, E, I, O, U
IsTenVowels(b) == b \in {97, 101, 105, 111, 117} \cup {65, 69, 73, 79, 85}
IsNotTenVowels(b) == ~IsTenVowels(b)

\* C22: format 2 classifier: for every input x and position i,
\* split_streams_v2 writes mask[i] = 'V' exactly when x[i] is one of the ten
\* bytes a,e,i,o,u,A,E,I,O,U, 'C' when x[i] is any other alphabetic
\* character and 'O' otherwise, so the mask holds only 'V', 'C', 'O'; the
\* vowel stream is the subsequence of the vowel bytes of x in order and the
\* cons-and-other stream the subsequence of all remaining bytes in order.
C22_Classifier ==
    (version = VERSION_STEP2 /\ pc # "start" /\ cut = 0) =>
        LET s == split_streams_v2(data)
        IN  /\ DOMAIN s.mask = DOMAIN data
            /\ \A i \in DOMAIN data :
                 /\ s.mask[i] = 86 <=> IsTenVowels(data[i])
                 /\ s.mask[i] = 67 <=> (IsAlpha(data[i]) /\ ~IsTenVowels(data[i]))
                 /\ s.mask[i] = 79 <=> (~IsAlpha(data[i]) /\ ~IsTenVowels(data[i]))
                 /\ s.mask[i] \in {86, 67, 79}
            /\ s.vowels = SelectSeq(data, IsTenVowels)
            /\ s.cons = SelectSeq(data, IsNotTenVowels)

C22_Witness ==
    /\ version = VERSION_STEP2 /\ pc = "compressed" /\ cut = 0
    /\ data = <<255, 69, 32>>
    /\ split_streams_v2(data) = [mask |-> <<67, 86, 79>>, vowels |-> <<69>>, cons |-> <<255, 32>>]


\* the vocabulary a format 3 / 4 container stores
StoredVocab(c) ==
    ParseVocabRun([idx |-> 14, vocab_list |-> <<>>, err |-> "none"],
                  c, FromBytes(Slice(c, 12, 14))).vocab_list

\* the id stream a format 3 / 4 container stores, Huffman-decoded
StoredIds(c, ver) ==
    LET idx == PrimaryFreqOffset(c, ver)
    IN  huffman_decompress_core(ParseFreq(c, idx), Slice(c, idx + 256 * 4 + 1, Len(c)),
                                FieldN(c), c[idx + 256 * 4 + 1])

\* the position of the first x in s
FirstAt(s, x) == CHOOSE i \in DOMAIN s : s[i] = x /\ \A j \in 1..(i - 1) : s[j] # x

\* C23: vocabulary construction: for every input compress_bytes_v3 / _v4
\* accept, the stored vocabulary lists each distinct token exactly once, in
\* the order of first occurrence in the token sequence, and has at most 256
\* entries; the id stream has one byte per token (N is the token count), the
\* i-th id is the vocabulary position of the i-th token, every id is below
\* VOCAB_SIZE, and ids first appear in the stream in the order 0, 1, 2, ...
C23_Vocabulary ==
    (version \in {VERSION_STEP3, VERSION_STEP4} /\ pc = "compressed" /\ cut = 0) =>
        LET tokens == TokensOf(data, version)
            vocab  == StoredVocab(comp)
            ids    == StoredIds(comp, version)
            size   == FromBytes(Slice(comp, 12, 14))
        IN  /\ Len(vocab) = size
            /\ size <= 256
            /\ Range(vocab) = Range(tokens)
            /\ Cardinality(Range(vocab)) = Len(vocab)
            /\ \A k \in 1..(Len(vocab) - 1) :
                   FirstAt(tokens, vocab[k]) < FirstAt(tokens, vocab[k + 1])
            /\ FieldN(comp) = Len(tokens)
            /\ Len(ids) = Len(tokens)
            /\ \A i \in 1..Len(ids) :
                 /\ ids[i] \in Byte
                 /\ ids[i] < size
                 /\ vocab[ids[i] + 1] = tokens[i]
                 /\ ids[i] > 0 => \E j \in 1..(i - 1) : ids[j] = ids[i] - 1

C23_Witness ==
    /\ version = VERSION_STEP4 /\ pc = "compressed" /\ cut = 0
    /\ data = <<98, 32, 98>>
    /\ StoredVocab(comp) = <<<<98>>, <<32>>>>
    /\ StoredIds(comp, version) = <<0, 1, 0>>


\* C24: frequent symbols get codes that are no longer: for every frequency
\* table f and every pair of symbols x, y with f[x] > f[y] > 0, the code that
\* build_code_table(build_huffman_tree(f)) gives x is at most as long as the
\* code it gives y.
C24_FrequentShorter ==
    \A b \in Builders :
        (bpc[b] = "done" /\ broot[b] # NoTree) =>
            LET codes == build_code_table(broot[b])
                coded == Support(freq0)
            IN  /\ coded \subseteq DOMAIN codes
                /\ \A x, y \in coded :
                       freq0[x] > freq0[y] => Len(codes[x]) <= Len(codes[y])

C24_Witness ==
    /\ bpc[2] = "done"
    /\ freq0[32] = 1 /\ freq0[69] = 0 /\ freq0[97] = 1 /\ freq0[98] = 2 /\ freq0[255] = 0
    /\ build_code_table(broot[2]) = (98 :> <<0>>) @@ (32 :> <<1, 0>>) @@ (97 :> <<1, 1>>)


\* C25: the standalone Step 1 program and the unified format 1 are
\* equivalent: for every byte sequence x, compress_bytes(x) of
\* gcc_huffman_step1.py equals compress_bytes_v1(x) byte for byte, and on
\* every container produced this way decompress_bytes and decompress_bytes_v1
\* return the same bytes, the empty input included.
C25_Step1Equivalent ==
    /\ (pc # "start" /\ codec.enc = "step1") => comp = compress_bytes_v1(data).out
    /\ (pc # "start" /\ codec.enc = "unified") => comp = compress_bytes(data).out
    /\ (pc = "done" /\ codec.dec = "step1") =>
          /\ result.status = "ok"
          /\ result = decompress_bytes_v1(comp)
    /\ (pc = "done" /\ codec.dec = "unified") =>
          /\ result.status = "ok"
          /\ result = decompress_bytes(comp)

C25_Witness ==
    /\ pc = "done"
    /\ data = <<>>
    /\ codec.enc = "step1" /\ codec.dec = "unified"
    /\ Len(comp) = 3 + 1 + 8 + 256 * 4 + 1
    /\ comp[Len(comp)] = 0
    /\ result.status = "ok"
    /\ result.out = <<>>

=============================================================================
